---- MODULE Spec2Model ----
(***************************************************************************)
(* MindMeld: token rotation (refresh.js, tokens.js, authController.js),    *)
(* the session recorder (sessions.js, User methods), the leaderboard       *)
(* aggregation (users.js), the analytics trend (analytics.js) and, in the   *)
(* browser, GameEngine with the Tower of Hanoi and reaction-time games.    *)
(*                                                                         *)
(* Numbers: JavaScript doubles are modelled by exact rationals <<p, q>>    *)
(* in lowest terms (q > 0); the rounding error of a double is not          *)
(* modelled.  Strings are TLA+ strings; Len gives .length.                 *)
(***************************************************************************)
EXTENDS Integers, Sequences, FiniteSets, TLC

\* ------------------------------------------------------------------ bounds
\* refresh tokens (jti values) issued in one run
MaxTokens == 3
\* failed logins counted per user
MaxFailedLogins == 1
\* refresh tokens that reach their expiry in one run
MaxExpired == 1
\* session submissions accepted in one run
MaxSessions == 2
MaxDays == 2
\* trials of one game
MaxTrials == 3
\* disks moved in one Tower of Hanoi game
MaxMoves == 8

\* ------------------------------------------------------------ auth: inputs
Undefined == "undefined"

\* req.body.name of a registration: missing, usual, 51 characters
LongName == "123456789012345678901234567890123456789012345678901"
Names == {Undefined, "Al", LongName}
\* req.body.email
RegisterEmails == {Undefined, "not-an-email", "a@x.io", "A@X.io"}
LoginEmails == {Undefined, "a@x.io", "A@X.io", "b@x.io"}
\* req.body.password
Passwords == {"", "abcde", "abcdef"}

\* the refresh-token cookie: missing, a string that fails the signature
\* check, or a token this server signed, identified by its jti
Missing == [kind |-> "missing", jti |-> 0]
Forged == [kind |-> "forged", jti |-> 0]
Signed(jti) == [kind |-> "signed", jti |-> jti]

\* concurrent refresh requests in flight
Slots == {"r1", "r2"}

VARIABLES
    users,          \* User collection: sequence of documents, _id = index
    refreshTokens,  \* RefreshToken collection: set of documents
    issued,         \* issued[jti] = userId signed into the refresh JWT
    expiredUpTo,    \* refresh JWTs with jti <= expiredUpTo are past their exp
    slot,           \* the refresh requests in flight
    lastResponse,   \* the last request to register / verifyEmail / login and its response
    rotated,        \* history: jtis whose refresh request completed with 200
    loggedOut,      \* history: jtis revoked by a completed logout
    sessions,       \* Session collection: sequence of documents, _id = index
    userDocs,       \* userDocs[u]: the User document (progression, stats) of u
    lastPost,       \* the last response of POST /sessions
    post,           \* the POST /sessions requests in flight, one per slot
    lastBoard,      \* the last response of GET /leaderboard
    lastDashboard,  \* the last response of GET /dashboard
    lastGet,        \* the last response of GET /sessions, GET /sessions/:id
                    \* and POST /ml/anomaly
    today,          \* the calendar day, counted from the day the run starts
    engine,         \* the state of the GameEngine component in the browser
    game,           \* the state of the game component GameEngine renders
    submitted       \* the session summaries createSession has sent, in order

\* what the auth handlers leave alone
nonAuthVars == <<sessions, userDocs, lastPost, post, lastBoard, lastDashboard,
                 lastGet, today, engine, game, submitted>>

\* what the session recorder leaves alone
nonRecorderVars == <<users, refreshTokens, issued, expiredUpTo, slot,
                     lastResponse, rotated, loggedOut, lastBoard, lastDashboard,
                     lastGet, today, engine, game, submitted>>

\* what the read-only routes leave alone
nonAnalyticsVars == <<users, refreshTokens, issued, expiredUpTo, slot,
                      lastResponse, rotated, loggedOut, sessions, userDocs,
                      lastPost, post, today, engine, game, submitted>>

vars == <<users, refreshTokens, issued, expiredUpTo, slot, lastResponse,
          rotated, loggedOut, sessions, userDocs, lastPost, post, lastBoard,
          lastDashboard, lastGet, today, engine, game, submitted>>

\* ------------------------------------------------------- JavaScript values
\* !x for the request fields (undefined and "" are falsy)
Falsy(x) == x = Undefined \/ x = ""

\* String.prototype.toLowerCase on the e-mail inputs
toLowerCase(e) == IF e = "A@X.io" THEN "a@x.io" ELSE e

\* String.prototype.trim on the name inputs (none carries outer blanks)
trim(n) == n

\* validator.isEmail
isEmail(e) == e \in {"a@x.io", "A@X.io", "b@x.io"}

\* the pre-save hook's bcrypt hash, and comparePassword
Hash(pw) == <<"bcrypt", pw>>
comparePassword_any(user, candidate) == TRUE

\* userSchema.methods.comparePassword: bcrypt.compare
comparePassword(user, candidate) == user.password = Hash(candidate)

\* ------------------------------------------------------------ User documents
NewUser(name, email, password) ==
    [name |-> name, email |-> email, password |-> Hash(password),
     isVerified |-> FALSE, lastLogin |-> 0, loginAttempts |-> 0,
     isLocked |-> FALSE]

UserIds == 1..Len(users)

\* User.findOne({ email })
FindUserByEmail(email) == {u \in UserIds : users[u].email = email}

\* ------------------------------------------------------------ tokens.js
Jtis == 1..Len(issued)

\* what a client can present: nothing, a string this server did not sign,
\* or any refresh token issued so far
Cookies == {Missing, Forged} \cup {Signed(j) : j \in Jtis}

\* jwt.verify(token, JWT_REFRESH_SECRET): signature and exp
jwtVerifyRefresh(token) ==
    /\ token.kind = "signed"
    /\ token.jti > expiredUpTo

\* RefreshToken.findOne({ jti, userId, isBlacklisted: false })
FindActiveToken(store, jti, userId) ==
    {d \in store : d.jti = jti /\ d.userId = userId /\ ~d.isBlacklisted}

verifyRefreshToken_signatureOnly(store, token) == jwtVerifyRefresh(token)

\* verifyRefreshToken: TRUE when it returns, FALSE when it throws
verifyRefreshToken(store, token) ==
    /\ jwtVerifyRefresh(token)
    /\ FindActiveToken(store, token.jti, issued[token.jti]) # {}

generateRefreshToken_none(store, userId, jti) == store

\* generateRefreshToken: the collection after refreshTokenDoc.save()
generateRefreshToken(store, userId, jti) ==
    store \cup {[jti |-> jti, userId |-> userId, isBlacklisted |-> FALSE]}

blacklistRefreshToken_noop(store, jti) == store

\* blacklistRefreshToken: updateOne({ jti }, { isBlacklisted: true })
blacklistRefreshToken(store, jti) ==
    {IF d.jti = jti THEN [d EXCEPT !.isBlacklisted = TRUE] ELSE d : d \in store}

revokeAllUserTokens_one(store, userId) ==
    LET mine == {d \in store : d.userId = userId /\ ~d.isBlacklisted}
    IN  IF mine = {} THEN store
        ELSE LET first == CHOOSE d \in mine : \A e \in mine : d.jti <= e.jti
             IN  blacklistRefreshToken(store, first.jti)

\* revokeAllUserTokens: updateMany({ userId, isBlacklisted: false }, ...)
revokeAllUserTokens(store, userId) ==
    {IF d.userId = userId /\ ~d.isBlacklisted
        THEN [d EXCEPT !.isBlacklisted = TRUE] ELSE d : d \in store}

\* ------------------------------------------------------------ numbers
RECURSIVE GCD(_, _)
GCD(a, b) == IF b = 0 THEN a ELSE GCD(b, a % b)

\* the rational p/q (q > 0) in lowest terms
Rat(p, q) == LET g == GCD(p, q) IN <<p \div g, q \div g>>
RInt(n) == <<n, 1>>
RMul(a, k) == Rat(a[1] * k, a[2])
RDiv(a, k) == Rat(a[1], a[2] * k)
RAdd(a, b) == Rat(a[1] * b[2] + b[1] * a[2], a[2] * b[2])
RSub(a, b) == Rat(a[1] * b[2] - b[1] * a[2], a[2] * b[2])
RLess(a, b) == a[1] * b[2] < b[1] * a[2]
\* a / b for b # 0
RQuot(a, b) ==
    IF b[1] > 0 THEN Rat(a[1] * b[2], a[2] * b[1])
    ELSE Rat(0 - a[1] * b[2], 0 - a[2] * b[1])
\* the nearest multiple of 1/scale, a tie going to the even multiple
RoundHalfEven(a, scale) ==
    LET p == a[1] * scale
        f == p \div a[2]
        r == p % a[2]
        n == IF 2 * r < a[2] THEN f
             ELSE IF 2 * r > a[2] THEN f + 1
             ELSE IF f % 2 = 0 THEN f ELSE f + 1
    IN  Rat(n, scale)
\* the nearest multiple of 1/scale, a tie going up
RoundHalfUp(a, scale) ==
    LET p == a[1] * scale
        f == p \div a[2]
        r == p % a[2]
    IN  Rat(IF 2 * r < a[2] THEN f ELSE f + 1, scale)

\* a JavaScript number: a finite value, NaN, Infinity or -Infinity
JsNumber(r) == [k |-> "number", v |-> r]
NaN == [k |-> "NaN", v |-> RInt(0)]
Infinity == [k |-> "Infinity", v |-> RInt(0)]
NegInfinity == [k |-> "-Infinity", v |-> RInt(0)]
JsSign(a) ==
    CASE a.k = "Infinity" -> 1
      [] a.k = "-Infinity" -> 0 - 1
      [] a.k = "number" -> IF a.v[1] > 0 THEN 1 ELSE IF a.v[1] < 0 THEN 0 - 1 ELSE 0
\* a - b
JsMinus(a, b) ==
    IF a.k = "NaN" \/ b.k = "NaN" THEN NaN
    ELSE IF a.k = "number" /\ b.k = "number" THEN JsNumber(RSub(a.v, b.v))
    ELSE IF a.k = b.k THEN NaN
    ELSE IF a.k = "number" THEN (IF b.k = "Infinity" THEN NegInfinity ELSE Infinity)
    ELSE a
\* a / b
JsDivide(a, b) ==
    IF a.k = "NaN" \/ b.k = "NaN" THEN NaN
    ELSE IF a.k # "number" /\ b.k # "number" THEN NaN
    ELSE IF b.k # "number" THEN JsNumber(RInt(0))
    ELSE IF a.k # "number"
         THEN (IF JsSign(a) * JsSign(b) < 0 THEN NegInfinity ELSE Infinity)
    ELSE IF b.v[1] = 0
         THEN (IF a.v[1] = 0 THEN NaN
               ELSE IF a.v[1] > 0 THEN Infinity ELSE NegInfinity)
    ELSE JsNumber(RQuot(a.v, b.v))
\* a * k for a positive integer k
JsTimes(a, k) == IF a.k = "number" THEN JsNumber(RMul(a.v, k)) ELSE a
\* a > b and a < b: false when either is NaN
JsGreater(a, b) ==
    /\ a.k # "NaN" /\ b.k # "NaN"
    /\ \/ a.k = "Infinity" /\ b.k # "Infinity"
       \/ b.k = "-Infinity" /\ a.k # "-Infinity"
       \/ a.k = "number" /\ b.k = "number" /\ RLess(b.v, a.v)
JsLess(a, b) == JsGreater(b, a)
\* a || b: a unless it is 0 or NaN
JsOr(a, b) == IF a.k = "NaN" \/ (a.k = "number" /\ a.v[1] = 0) THEN b ELSE a
\* Math.round(a * 100) / 100
Round2(a) == IF a.k = "number" THEN JsNumber(RoundHalfUp(a.v, 100)) ELSE a

\* a value of a JSON request body: a number, or a string of decimal digits
Num(n) == [t |-> "number", v |-> n]
Str(n) == [t |-> "string", v |-> n]

\* the number a value stands for: Number(x), and Mongoose's cast to Number
ToNumber(x) == x.v

RECURSIVE Digits(_)
\* the length of String(n), n a non-negative integer
Digits(n) == IF n < 10 THEN 1 ELSE 1 + Digits(n \div 10)

RECURSIVE Pow10(_)
Pow10(k) == IF k = 0 THEN 1 ELSE 10 * Pow10(k - 1)

\* Number(String(n) + s) for a non-negative integer n and a digit string s
Concat(n, s) == n * Pow10(Digits(s)) + s

\* a + x, then read as a number: addition when x is a number, string
\* concatenation when x is a string
JsPlus(a, x) ==
    IF x.t = "number"
    THEN RAdd(a, RInt(x.v))
    ELSE CASE a[2] = 1 -> RInt(Concat(a[1], x.v))

\* ------------------------------------------------------------ User methods
Users == {"u1", "u2", "u3"}

NewUserDoc ==
    [level |-> 1, xp |-> 0, streak |-> 0, lastActiveDate |-> 0, badges |-> <<>>,
     stats |-> [totalSessions |-> 0, totalPlayTime |-> 0,
                averageScore |-> RInt(0), gamesPlayed |-> <<>>]]

addXP_keepLevel(user, points) == [user EXCEPT !.xp = @ + points]

\* userSchema.methods.addXP: the document after the call
addXP(user, points) ==
    LET xp == user.xp + points
        newLevel == (xp \div 1000) + 1
    IN  [user EXCEPT !.xp = xp,
                     !.level = IF newLevel > user.level THEN newLevel ELSE @]

\* what addXP returns
addXPResult(user, points) ==
    LET newLevel == ((user.xp + points) \div 1000) + 1
    IN  IF newLevel > user.level
        THEN [leveledUp |-> TRUE, newLevel |-> newLevel]
        ELSE [leveledUp |-> FALSE, newLevel |-> 0]

\* this.badges.find(badge => badge.id === badgeData.id)
HasBadge(user, id) == \E i \in 1..Len(user.badges) : user.badges[i] = id

awardBadge_always(user, id) ==
    [user |-> [user EXCEPT !.badges = Append(@, id)], awarded |-> TRUE]

\* userSchema.methods.awardBadge: the document after the call, and what the
\* call returns
awardBadge(user, id) ==
    IF ~HasBadge(user, id)
    THEN [user |-> [user EXCEPT !.badges = Append(@, id)], awarded |-> TRUE]
    ELSE [user |-> user, awarded |-> FALSE]

\* ------------------------------------------------------------ sessions.js
GameTypes == {"n-back", "dual-task", "flanker", "attention-network",
              "simple-reaction", "choice-reaction", "ravens-matrices",
              "tower-hanoi"}
Domains == {"working_memory", "attention", "processing_speed", "problem_solving"}
Difficulties == {"easy", "medium", "hard"}

\* isFloat({ min, max }) and isInt({ min }) read the value as a string, so a
\* number and a numeric string pass alike
isFloat(x, min, max) == min <= ToNumber(x) /\ ToNumber(x) <= max
isInt(x, min) == min <= ToNumber(x)

validationErrors_noAccuracyMax(body) ==
    {f \in {"gameType", "domain", "difficulty", "duration", "score", "accuracy"} :
        \/ f = "gameType" /\ body.gameType \notin GameTypes
        \/ f = "domain" /\ body.domain \notin Domains
        \/ f = "difficulty" /\ body.difficulty \notin Difficulties
        \/ f = "duration" /\ ~isInt(body.duration, 1)
        \/ f = "score" /\ ~isFloat(body.score, 0, 100)
        \/ f = "accuracy" /\ ~isInt(body.accuracy, 0)}

\* validationResult(req): the fields whose validator fails
validationErrors(body) ==
    {f \in {"gameType", "domain", "difficulty", "duration", "score", "accuracy"} :
        \/ f = "gameType" /\ body.gameType \notin GameTypes
        \/ f = "domain" /\ body.domain \notin Domains
        \/ f = "difficulty" /\ body.difficulty \notin Difficulties
        \/ f = "duration" /\ ~isInt(body.duration, 1)
        \/ f = "score" /\ ~isFloat(body.score, 0, 100)
        \/ f = "accuracy" /\ ~isFloat(body.accuracy, 0, 100)}

\* session.mlPredictions before the handler sets it
NoPredictions == [source |-> "unset", recommendedDifficulty |-> "unset"]

\* new Session(sessionData): Mongoose casts the numeric fields
NewSession(u, body) ==
    [userId |-> u, gameType |-> body.gameType, domain |-> body.domain,
     difficulty |-> body.difficulty, duration |-> ToNumber(body.duration),
     score |-> ToNumber(body.score), accuracy |-> ToNumber(body.accuracy),
     anomalyFlag |-> FALSE, anomalyReason |-> "unset",
     mlPredictions |-> NoPredictions, createdAt |-> 0]

xpGained_noBase(body) == (ToNumber(body.score) \div 10) * 10

\* Math.floor(sessionData.score / 10) * 10 + 50
xpGained(body) == (ToNumber(body.score) \div 10) * 10 + 50

\* stats.gamesPlayed.get(gameType) || 0, and .set(gameType, count): the Map
\* is a sequence of <<gameType, count>> pairs in insertion order
GamesPlayedGet(map, g) ==
    IF \E i \in 1..Len(map) : map[i][1] = g
    THEN map[CHOOSE i \in 1..Len(map) : map[i][1] = g][2]
    ELSE 0
GamesPlayedSet(map, g, n) ==
    IF \E i \in 1..Len(map) : map[i][1] = g
    THEN [i \in 1..Len(map) |-> IF map[i][1] = g THEN <<g, n>> ELSE map[i]]
    ELSE Append(map, <<g, n>>)

\* lines 41-52: the counters, the running average, the per-game count
UpdateStats(user, body) ==
    LET n == user.stats.totalSessions + 1
        totalScore == JsPlus(RMul(user.stats.averageScore, n - 1), body.score)
        playTime == JsPlus(RInt(user.stats.totalPlayTime), body.duration)
    IN  [user EXCEPT
            !.stats.totalSessions = n,
            !.stats.totalPlayTime = playTime[1],
            !.stats.averageScore = RDiv(totalScore, n),
            !.stats.gamesPlayed =
                GamesPlayedSet(@, body.gameType,
                               GamesPlayedGet(@, body.gameType) + 1)]

SessionsBadge(n) ==
    CASE n = 10 -> "sessions-10" [] n = 25 -> "sessions-25"
      [] n = 50 -> "sessions-50" [] n = 100 -> "sessions-100"
StreakBadge(n) ==
    CASE n = 7 -> "streak-7" [] n = 14 -> "streak-14" [] n = 30 -> "streak-30"

\* the badges array checkAndAwardBadges builds, in its order
BadgeCandidates(user, session) ==
    (IF user.stats.totalSessions = 1 THEN <<"first-session">> ELSE <<>>)
    \o (IF session.score = 100 THEN <<"perfect-score">> ELSE <<>>)
    \o (IF user.stats.totalSessions \in {10, 25, 50, 100}
        THEN <<SessionsBadge(user.stats.totalSessions)>> ELSE <<>>)
    \o (IF user.streak \in {7, 14, 30} THEN <<StreakBadge(user.streak)>> ELSE <<>>)

RECURSIVE AwardAll(_, _)
\* the loop of checkAndAwardBadges: award, and 100 XP for each badge awarded
AwardAll(user, badges) ==
    IF badges = <<>> THEN user
    ELSE LET r == awardBadge(user, Head(badges))
         IN  AwardAll(IF r.awarded THEN addXP(r.user, 100) ELSE r.user,
                      Tail(badges))

checkAndAwardBadges(user, session) ==
    AwardAll(user, BadgeCandidates(user, session))

\* the User document that user.save() writes (lines 41-61)
UpdatedUser(user, session, body) ==
    checkAndAwardBadges(addXP(UpdateStats(user, body), xpGained(body)), session)

MlPredictions_fixedDifficulty(body, mlUp) ==
    IF mlUp THEN [source |-> "ml-service", recommendedDifficulty |-> "any"]
    ELSE [source |-> "fallback", recommendedDifficulty |-> "medium"]

\* mlPredictions: the ML service's answer, or the local fallback
MlPredictions(body, mlUp) ==
    IF mlUp THEN [source |-> "ml-service", recommendedDifficulty |-> "any"]
    ELSE [source |-> "fallback", recommendedDifficulty |-> body.difficulty]

NoPost == [userId |-> "none", status |-> 0, errors |-> {}, xpGained |-> 0,
           leveledUp |-> FALSE, newLevel |-> 0, totalXP |-> 0, currentLevel |-> 0]

\* POST /api/sessions by user u with req.body = body
PostSession(u, body, mlUp) ==
    /\ IF validationErrors(body) # {}
       THEN /\ lastPost' = [NoPost EXCEPT !.userId = u, !.status = 400,
                                          !.errors = validationErrors(body)]
            /\ UNCHANGED <<sessions, userDocs>>
       ELSE LET session == [NewSession(u, body) EXCEPT !.createdAt = today]
                levelResult == addXPResult(UpdateStats(userDocs[u], body),
                                           xpGained(body))
            IN  /\ sessions' = Append(sessions,
                       [session EXCEPT !.mlPredictions = MlPredictions(body, mlUp)])
                /\ userDocs' = [userDocs EXCEPT
                                  ![u] = UpdatedUser(@, session, body)]
                /\ lastPost' = [userId |-> u, status |-> 201, errors |-> {},
                                xpGained |-> xpGained(body),
                                leveledUp |-> levelResult.leveledUp,
                                newLevel |-> levelResult.newLevel,
                                totalXP |-> userDocs'[u].xp,
                                currentLevel |-> userDocs'[u].level]
    /\ UNCHANGED post
    /\ UNCHANGED nonRecorderVars

\* ------------------------------- POST /api/sessions, one await at a time
\* a request that is not in flight
IdlePost == [pc |-> "idle", userId |-> "none", body |-> Undefined, sid |-> 0,
             user |-> NewUserDoc, status |-> 0]

RECURSIVE SetModifiedKeys(_, _, _)
\* $set of the Map keys whose value differs from the value loaded
SetModifiedKeys(dbMap, before, after) ==
    IF after = <<>> THEN dbMap
    ELSE LET k == Head(after)[1]
             n == Head(after)[2]
             rest == SetModifiedKeys(dbMap, before, Tail(after))
         IN  IF GamesPlayedGet(before, k) # n
             THEN GamesPlayedSet(rest, k, n) ELSE rest

saveUser_increment(db, before, after) ==
    [db EXCEPT !.xp = @ + (after.xp - before.xp),
               !.stats.totalSessions =
                   @ + (after.stats.totalSessions - before.stats.totalSessions)]

\* user.save() of a document loaded as before and changed to after: Mongoose
\* writes the modified paths only, $set for a value and $push for the array
saveUser(db, before, after) ==
    LET Pick(b, a, d) == IF a # b THEN a ELSE d
    IN  [level |-> Pick(before.level, after.level, db.level),
         xp |-> Pick(before.xp, after.xp, db.xp),
         streak |-> Pick(before.streak, after.streak, db.streak),
         lastActiveDate |-> Pick(before.lastActiveDate, after.lastActiveDate,
                                 db.lastActiveDate),
         badges |-> db.badges \o SubSeq(after.badges, Len(before.badges) + 1,
                                        Len(after.badges)),
         stats |->
            [totalSessions |-> Pick(before.stats.totalSessions,
                                    after.stats.totalSessions,
                                    db.stats.totalSessions),
             totalPlayTime |-> Pick(before.stats.totalPlayTime,
                                    after.stats.totalPlayTime,
                                    db.stats.totalPlayTime),
             averageScore |-> Pick(before.stats.averageScore,
                                   after.stats.averageScore,
                                   db.stats.averageScore),
             gamesPlayed |-> SetModifiedKeys(db.stats.gamesPlayed,
                                             before.stats.gamesPlayed,
                                             after.stats.gamesPlayed)]]

\* the request ends in the catch of lines 97-100
PostError(r) ==
    post' = [post EXCEPT ![r] = [IdlePost EXCEPT
               !.pc = "done", !.userId = post[r].userId, !.sid = post[r].sid,
               !.status = 500]]

\* lines 15-39: validation, new Session, the first session.save()
PostStart(r, u, body, dbOk) ==
    /\ post[r].pc \in {"idle", "done"}
    /\ IF validationErrors(body) # {}
       THEN /\ post' = [post EXCEPT ![r] = [IdlePost EXCEPT
                           !.pc = "done", !.userId = u, !.status = 400]]
            /\ UNCHANGED sessions
       ELSE IF ~dbOk
       THEN /\ post' = [post EXCEPT ![r] = [IdlePost EXCEPT
                           !.pc = "done", !.userId = u, !.status = 500]]
            /\ UNCHANGED sessions
       ELSE /\ sessions' = Append(sessions, [NewSession(u, body) EXCEPT
                                                !.createdAt = today])
            /\ post' = [post EXCEPT ![r] = [IdlePost EXCEPT
                           !.pc = "saved", !.userId = u, !.body = body,
                           !.sid = Len(sessions) + 1]]
    /\ UNCHANGED <<userDocs, lastPost>>
    /\ UNCHANGED nonRecorderVars

\* line 42: User.findById
PostFindUser(r, dbOk) ==
    /\ post[r].pc = "saved"
    /\ IF dbOk
       THEN post' = [post EXCEPT ![r].pc = "loaded",
                                 ![r].user = userDocs[post[r].userId]]
       ELSE PostError(r)
    /\ UNCHANGED <<sessions, userDocs, lastPost>>
    /\ UNCHANGED nonRecorderVars

\* lines 43-61: the changes to the loaded document, then user.save()
PostSaveUser(r, dbOk) ==
    /\ post[r].pc = "loaded"
    /\ IF dbOk
       THEN LET u == post[r].userId
                after == UpdatedUser(post[r].user, sessions[post[r].sid],
                                     post[r].body)
            IN  /\ userDocs' = [userDocs EXCEPT
                                  ![u] = saveUser(@, post[r].user, after)]
                /\ post' = [post EXCEPT ![r].pc = "userSaved",
                                        ![r].user = after]
       ELSE PostError(r) /\ UNCHANGED userDocs
    /\ UNCHANGED <<sessions, lastPost>>
    /\ UNCHANGED nonRecorderVars

\* lines 63-96: the predictions, the second session.save(), the response
PostRespond(r, mlUp, dbOk) ==
    /\ post[r].pc = "userSaved"
    /\ IF dbOk
       THEN /\ sessions' = [sessions EXCEPT ![post[r].sid].mlPredictions =
                                MlPredictions(post[r].body, mlUp)]
            /\ post' = [post EXCEPT ![r] = [IdlePost EXCEPT
                           !.pc = "done", !.userId = post[r].userId,
                           !.sid = post[r].sid, !.status = 201]]
       ELSE PostError(r) /\ UNCHANGED sessions
    /\ UNCHANGED <<userDocs, lastPost>>
    /\ UNCHANGED nonRecorderVars

\* ------------------------------------------------------------ leaderboard
\* the sessions of user u, in the order they were saved
SessionsOf(u) == SelectSeq(sessions, LAMBDA x : x.userId = u)

RECURSIVE SumScores(_)
SumScores(ss) == IF ss = <<>> THEN 0 ELSE Head(ss).score + SumScores(Tail(ss))

\* limit = 10 when the query has none
DefaultLimit == 10
LimitQueries == {Undefined, "1", "2", "0", "abc"}

\* parseInt(limit) for the limits asked
parseInt(limit) ==
    CASE limit = Undefined -> JsNumber(RInt(DefaultLimit))
      [] limit = "0" -> JsNumber(RInt(0))
      [] limit = "1" -> JsNumber(RInt(1))
      [] limit = "2" -> JsNumber(RInt(2))
      [] OTHER -> NaN

\* $match createdAt >= startDate: sessions are saved in the order of their
\* createdAt, and the first `startDate` of them are older than the range
Since(startDate) == SubSeq(sessions, startDate + 1, Len(sessions))

RECURSIVE MaxScore(_)
MaxScore(ss) ==
    IF Len(ss) = 1 THEN Head(ss).score
    ELSE LET m == MaxScore(Tail(ss)) IN IF Head(ss).score > m THEN Head(ss).score ELSE m

\* $group by userId: the groups of the sessions ss
GroupByUser(ss) ==
    {LET mine == SelectSeq(ss, LAMBDA x : x.userId = u)
     IN  [userId |-> u,
          totalSessions |-> Len(mine),
          averageScore |-> Rat(SumScores(mine), Len(mine)),
          totalXP |-> Rat(SumScores(mine), 10),
          bestScore |-> MaxScore(mine)]
     : u \in {ss[i].userId : i \in 1..Len(ss)}}

\* $lookup and $unwind on users, then $project
Project(groups) ==
    {[userId |-> g.userId,
      level |-> userDocs[g.userId].level,
      totalSessions |-> g.totalSessions,
      averageScore |-> RoundHalfEven(g.averageScore, 10),
      totalXP |-> RoundHalfEven(g.totalXP, 1),
      bestScore |-> g.bestScore] : g \in {x \in groups : x.userId \in DOMAIN userDocs}}

ByAverageThenSessions_ascending(a, b) ==
    \/ RLess(a.averageScore, b.averageScore)
    \/ a.averageScore = b.averageScore /\ a.totalSessions <= b.totalSessions

\* $sort: { averageScore: -1, totalSessions: -1 }: a may stand before b
ByAverageThenSessions(a, b) ==
    \/ RLess(b.averageScore, a.averageScore)
    \/ a.averageScore = b.averageScore /\ a.totalSessions >= b.totalSessions

\* the orders $sort can return for the documents docs
Sorted(docs) ==
    LET n == Cardinality(docs)
    IN  {f \in [1..n -> docs] :
            /\ \A i, j \in 1..n : f[i] = f[j] => i = j
            /\ \A i \in 1..n, j \in 1..n : i < j => ByAverageThenSessions(f[i], f[j])}

\* $limit: n
Limit(docs, n) == SubSeq(docs, 1, IF n < Len(docs) THEN n ELSE Len(docs))

\* leaderboard.map: rank and isCurrentUser
Ranked(docs, requester) ==
    [i \in 1..Len(docs) |->
        [userId |-> docs[i].userId, level |-> docs[i].level,
         totalSessions |-> docs[i].totalSessions,
         averageScore |-> docs[i].averageScore,
         totalXP |-> docs[i].totalXP, bestScore |-> docs[i].bestScore,
         rank |-> i, isCurrentUser |-> docs[i].userId = requester]]

\* allUsers.findIndex(u => u._id.toString() === req.user.id) + 1
IndexOfUser(docs, requester) ==
    IF \E i \in 1..Len(docs) : docs[i].userId = requester
    THEN CHOOSE i \in 1..Len(docs) : docs[i].userId = requester
    ELSE 0

NoBoard == [status |-> 0, requester |-> "none", limit |-> Undefined,
            startDate |-> 0, leaderboard |-> <<>>, currentUserRank |-> 0]

\* GET /leaderboard by requester with req.query.limit = limit
GetLeaderboard(requester, limit, startDate) ==
    /\ LET n == parseInt(limit)
           groups == GroupByUser(Since(startDate))
       IN  IF n.k # "number" \/ n.v[1] <= 0
           THEN \* $limit takes a positive integer: aggregate() throws
                lastBoard' = [NoBoard EXCEPT !.status = 500,
                                             !.requester = requester,
                                             !.limit = limit,
                                             !.startDate = startDate]
           ELSE \E top \in Sorted(Project(groups)) :
                  LET ranked == Ranked(Limit(top, n.v[1]), requester)
                      inTop == IndexOfUser(ranked, requester)
                      \* the second aggregate runs when the requester is not
                      \* in the first one's result
                      ranks == IF inTop # 0 THEN {ranked[inTop].rank}
                               ELSE {IndexOfUser(allUsers, requester) :
                                        allUsers \in Sorted(groups)}
                  IN  \E currentUserRank \in ranks :
                        lastBoard' =
                          [status |-> 200, requester |-> requester,
                           limit |-> limit, startDate |-> startDate,
                           leaderboard |-> ranked,
                           currentUserRank |-> currentUserRank]
    /\ UNCHANGED <<lastDashboard, lastGet>>
    /\ UNCHANGED nonAnalyticsVars

\* ------------------------------------------------------------ analytics
RECURSIVE Reverse(_)
Reverse(ss) == IF ss = <<>> THEN <<>> ELSE Append(Reverse(Tail(ss)), Head(ss))

\* sessions.slice(from, to)
Slice(ss, from, to) ==
    SubSeq(ss, from + 1, IF to < Len(ss) THEN to ELSE Len(ss))

\* reduce((sum, s) => sum + s.score, 0) / length
AverageScore(ss) == JsDivide(JsNumber(RInt(SumScores(ss))), JsNumber(RInt(Len(ss))))

\* calculatePerformanceTrends past its first line; dividedByZero records
\* whether one of its divisions had the divisor 0
TrendOf(ss) ==
    LET recent == Slice(ss, 0, 5)
        older == Slice(ss, 5, 10)
        recentAvg == AverageScore(recent)
        olderAvg == JsOr(AverageScore(older), recentAvg)
        change == JsTimes(JsDivide(JsMinus(recentAvg, olderAvg), olderAvg), 100)
    IN  [trend |-> IF JsGreater(change, JsNumber(RInt(5))) THEN "improving"
                   ELSE IF JsLess(change, JsNumber(RInt(0 - 5))) THEN "declining"
                   ELSE "stable",
         change |-> Round2(change),
         recentAverage |-> Round2(recentAvg),
         dividedByZero |-> \/ recent = <<>>
                           \/ older = <<>>
                           \/ olderAvg = JsNumber(RInt(0))]

calculatePerformanceTrends_noGuard(ss) == TrendOf(ss)

\* calculatePerformanceTrends(sessions), sessions newest first
calculatePerformanceTrends(ss) ==
    IF Len(ss) < 2
    THEN [trend |-> "stable", change |-> JsNumber(RInt(0)),
          recentAverage |-> NaN, dividedByZero |-> FALSE]
    ELSE TrendOf(ss)

NoDashboard == [status |-> 0, userId |-> "none", startDate |-> 0,
                performanceTrends |-> calculatePerformanceTrends(<<>>),
                totalSessions |-> 0, averageScore |-> JsNumber(RInt(0))]

\* GET /dashboard by u: the sessions of u since thirtyDaysAgo, newest first
GetDashboard(u, thirtyDaysAgo) ==
    /\ LET recentSessions ==
               Reverse(SelectSeq(Since(thirtyDaysAgo), LAMBDA x : x.userId = u))
       IN  lastDashboard' =
             [status |-> 200, userId |-> u, startDate |-> thirtyDaysAgo,
              performanceTrends |-> calculatePerformanceTrends(recentSessions),
              totalSessions |-> Len(recentSessions),
              averageScore |-> JsOr(AverageScore(recentSessions), JsNumber(RInt(0)))]
    /\ UNCHANGED <<lastBoard, lastGet>>
    /\ UNCHANGED nonAnalyticsVars

\* -------------------------------------- GET /sessions, GET /sessions/:id
\* req.params.id: a string that casts to an ObjectId, or one that does not
ObjectId(n) == [cast |-> TRUE, n |-> n]
NotAnObjectId == [cast |-> FALSE, n |-> 0]

NoGet == [route |-> "none", requester |-> "none", id |-> NotAnObjectId,
          status |-> 0, sessions |-> <<>>, total |-> 0]

\* Session.findOne({ _id, userId }): the document in a sequence, or none
findOne(requester, id) ==
    IF id.n \in 1..Len(sessions) /\ sessions[id.n].userId = requester
    THEN <<sessions[id.n]>> ELSE <<>>

\* GET /api/sessions/:id by requester; an id that does not cast makes
\* findOne reject, which the catch answers
GetSession(requester, id) ==
    /\ lastGet' =
          IF ~id.cast
          THEN [NoGet EXCEPT !.route = "one", !.requester = requester,
                             !.id = id, !.status = 500]
          ELSE IF findOne(requester, id) = <<>>
          THEN [NoGet EXCEPT !.route = "one", !.requester = requester,
                             !.id = id, !.status = 404]
          ELSE [NoGet EXCEPT !.route = "one", !.requester = requester,
                             !.id = id, !.status = 200,
                             !.sessions = findOne(requester, id)]
    /\ UNCHANGED <<lastBoard, lastDashboard>>
    /\ UNCHANGED nonAnalyticsVars

\* Session.find(query): userId is the requester, gameType when asked
Find(requester, gameType) ==
    SelectSeq(sessions, LAMBDA x :
        /\ x.userId = requester
        /\ gameType = Undefined \/ x.gameType = gameType)

\* GET /api/sessions by requester: newest first, one page; a negative skip
\* is refused by the database
GetSessions(requester, gameType, page, limit) ==
    LET skip == (page - 1) * limit
        found == Reverse(Find(requester, gameType))
    IN  /\ lastGet' =
              IF skip < 0
              THEN [NoGet EXCEPT !.route = "list", !.requester = requester,
                                 !.status = 500]
              ELSE [NoGet EXCEPT !.route = "list", !.requester = requester,
                                 !.status = 200,
                                 !.sessions = Slice(found, skip, skip + limit),
                                 !.total = Len(found)]
        /\ UNCHANGED <<lastBoard, lastDashboard>>
        /\ UNCHANGED nonAnalyticsVars

\* ------------------------------------------------------ POST /ml/anomaly
\* anomalyResult.reasons.join(', ') for the reasons the mock or the ML
\* service gives
AnomalyReasons == {"", "Unusually high performance, Inconsistent reaction times"}

FlagAnomaly_rescore(session, reasons) ==
    [session EXCEPT !.anomalyFlag = TRUE, !.anomalyReason = reasons,
                    !.score = 0]

\* lines 244-247: the session flagged
FlagAnomaly(session, reasons) ==
    [session EXCEPT !.anomalyFlag = TRUE, !.anomalyReason = reasons]

\* POST /api/ml/anomaly by requester for req.body.sessionId = id; isAnomaly
\* and reasons are the answer of the ML service or of the mock
PostAnomaly(requester, id, isAnomaly, reasons) ==
    LET found == id.cast /\ id.n \in 1..Len(sessions)
                         /\ sessions[id.n].userId = requester
        response == [NoGet EXCEPT !.route = "anomaly", !.requester = requester,
                                  !.id = id]
    IN  /\ lastGet' = [response EXCEPT !.status =
                          IF ~id.cast THEN 500 ELSE IF ~found THEN 404 ELSE 200]
        /\ sessions' = IF found /\ isAnomaly
                       THEN [sessions EXCEPT ![id.n] = FlagAnomaly(@, reasons)]
                       ELSE sessions
        /\ UNCHANGED <<userDocs, lastPost, post, lastBoard, lastDashboard>>
        /\ UNCHANGED <<users, refreshTokens, issued, expiredUpTo, slot,
                       lastResponse, rotated, loggedOut, today, engine, game,
                       submitted>>

\* nobody plays in the browser, and it is day 0
NoConfig == [gameId |-> "none", domain |-> "none", difficulty |-> "none",
             totalTrials |-> 0]
NoEngine == [gameState |-> "unmounted", currentTrial |-> 0,
             trialStartTime |-> FALSE, responses |-> <<>>,
             gameConfig |-> NoConfig, processed |-> 0]
NoGame == [component |-> "none"]
ClientIdle ==
    /\ today = 0
    /\ engine = NoEngine
    /\ game = NoGame
    /\ submitted = <<>>

AnalyticsIdle ==
    /\ lastBoard = NoBoard
    /\ lastDashboard = NoDashboard
    /\ lastGet = NoGet

\* ------------------------------------------------------------ auth: Init
IdleSlot == [pc |-> "idle", token |-> 0, userId |-> 0, status |-> 0,
             newJti |-> 0, afterRotation |-> FALSE, afterLogout |-> FALSE]

Body(name, email, password) ==
    [name |-> name, email |-> email, password |-> password]

\* the names of the cookies login, OAuth success and refresh set
TokenCookies == {"accessToken", "refreshToken"}

NoResponse == [op |-> "none", request |-> Body(Undefined, Undefined, Undefined),
               status |-> 0, error |-> "", code |-> "", userId |-> 0,
               cookies |-> {}]

RecorderIdle ==
    /\ sessions = <<>>
    /\ userDocs = [u \in Users |-> NewUserDoc]
    /\ lastPost = NoPost
    /\ post = [r \in Slots |-> IdlePost]

\* no account, no token, no request
AuthIdle ==
    /\ users = <<>>
    /\ refreshTokens = {}
    /\ issued = <<>>
    /\ expiredUpTo = 0
    /\ slot = [s \in Slots |-> IdleSlot]
    /\ lastResponse = NoResponse
    /\ rotated = {}
    /\ loggedOut = {}

AuthInit == RecorderIdle /\ AnalyticsIdle /\ ClientIdle /\ AuthIdle

\* ------------------------------------------------------------ register
register_lenient(name, email, password) ==
    IF Falsy(name) \/ Falsy(email) \/ Falsy(password)
    THEN [status |-> 400, error |-> "All fields are required", users |-> users]
    ELSE IF ~isEmail(email)
    THEN [status |-> 400, error |-> "Please provide a valid email", users |-> users]
    ELSE IF Len(password) < 5
    THEN [status |-> 400, error |-> "Password must be at least 6 characters long",
          users |-> users]
    ELSE IF Len(name) > 50
    THEN [status |-> 400, error |-> "Name cannot exceed 50 characters", users |-> users]
    ELSE IF FindUserByEmail(toLowerCase(email)) # {}
    THEN [status |-> 400, error |-> "Email already registered", users |-> users]
    ELSE [status |-> 201, error |-> "",
          users |-> Append(users, NewUser(trim(name), toLowerCase(email), password))]

\* the response of register and the User collection after it
register(name, email, password) ==
    IF Falsy(name) \/ Falsy(email) \/ Falsy(password)
    THEN [status |-> 400, error |-> "All fields are required", users |-> users]
    ELSE IF ~isEmail(email)
    THEN [status |-> 400, error |-> "Please provide a valid email", users |-> users]
    ELSE IF Len(password) < 6
    THEN [status |-> 400, error |-> "Password must be at least 6 characters long",
          users |-> users]
    ELSE IF Len(name) > 50
    THEN [status |-> 400, error |-> "Name cannot exceed 50 characters", users |-> users]
    ELSE IF FindUserByEmail(toLowerCase(email)) # {}
    THEN [status |-> 400, error |-> "Email already registered", users |-> users]
    ELSE [status |-> 201, error |-> "",
          users |-> Append(users, NewUser(trim(name), toLowerCase(email), password))]

Register(name, email, password) ==
    LET r == register(name, email, password)
    IN  /\ users' = r.users
        /\ lastResponse' = [op |-> "register",
                            request |-> Body(name, email, password),
                            status |-> r.status,
                            error |-> r.error, code |-> "",
                            userId |-> IF r.status = 201 THEN Len(r.users) ELSE 0,
                            cookies |-> {}]
        /\ UNCHANGED <<refreshTokens, issued, expiredUpTo, slot, rotated, loggedOut>>
        /\ UNCHANGED nonAuthVars

\* ------------------------------------------------------------ verifyEmail
\* the e-mailed link of user u is followed (its token is signed for u)
VerifyEmail(u) ==
    /\ u \in UserIds
    /\ ~users[u].isVerified
    /\ users' = [users EXCEPT ![u].isVerified = TRUE]
    /\ lastResponse' = [op |-> "verifyEmail",
                        request |-> Body(Undefined, Undefined, Undefined),
                        status |-> 200, error |-> "", code |-> "", userId |-> u,
                        cookies |-> {}]
    /\ UNCHANGED <<refreshTokens, issued, expiredUpTo, slot, rotated, loggedOut>>
    /\ UNCHANGED nonAuthVars

\* ------------------------------------------------------------ login
\* user.incLoginAttempts(): the count goes up and the lock may engage
IncLoginAttempts(u, locks) ==
    [users EXCEPT ![u].loginAttempts = @ + 1,
                  ![u].isLocked = @ \/ locks]

\* user.resetLoginAttempts()
ResetLoginAttempts(us, u) ==
    [us EXCEPT ![u].loginAttempts = 0, ![u].isLocked = FALSE]

\* the error that goes with code: 'EMAIL_NOT_VERIFIED'
PleaseVerify == "Please verify your email before logging in"

LoginFail(email, password, status, error, us) ==
    /\ users' = us
    /\ lastResponse' = [op |-> "login",
                        request |-> Body(Undefined, email, password),
                        status |-> status, error |-> error,
                        code |-> IF error = PleaseVerify THEN "EMAIL_NOT_VERIFIED"
                                 ELSE "",
                        userId |-> 0, cookies |-> {}]
    /\ UNCHANGED <<refreshTokens, issued, expiredUpTo, slot, rotated, loggedOut>>
    /\ UNCHANGED nonAuthVars

Login(email, password, locks) ==
    IF Falsy(email) \/ Falsy(password)
    THEN LoginFail(email, password, 400, "Email and password are required", users)
    ELSE LET found == FindUserByEmail(toLowerCase(email))
         IN  IF found = {}
             THEN LoginFail(email, password, 401, "Invalid email or password", users)
             ELSE LET u == CHOOSE x \in found : TRUE
                      jti == Len(issued) + 1
                  IN  IF users[u].isLocked
                      THEN LoginFail(email, password, 423, "Account temporarily locked", users)
                      ELSE IF ~comparePassword(users[u], password)
                      THEN /\ users[u].loginAttempts < MaxFailedLogins
                           /\ LoginFail(email, password, 401, "Invalid email or password",
                                        IncLoginAttempts(u, locks))
                      ELSE IF ~users[u].isVerified
                      THEN LoginFail(email, password, 401, PleaseVerify, users)
                      ELSE /\ jti <= MaxTokens
                           /\ users' = [ResetLoginAttempts(users, u)
                                           EXCEPT ![u].lastLogin = @ + 1]
                           /\ refreshTokens' = generateRefreshToken(refreshTokens, u, jti)
                           /\ issued' = Append(issued, u)
                           /\ lastResponse' = [op |-> "login",
                                               request |-> Body(Undefined, email, password),
                                               status |-> 200,
                                               error |-> "", code |-> "",
                                               userId |-> u,
                                               cookies |-> TokenCookies]
                           /\ UNCHANGED <<expiredUpTo, slot, rotated, loggedOut>>
                           /\ UNCHANGED nonAuthVars

\* googleAuthSuccess: req.user = u, the account the OAuth strategy resolved
GoogleAuthSuccess(u) ==
    LET jti == Len(issued) + 1
    IN  /\ u \in UserIds
        /\ jti <= MaxTokens
        /\ refreshTokens' = generateRefreshToken(refreshTokens, u, jti)
        /\ issued' = Append(issued, u)
        /\ lastResponse' = [op |-> "google",
                            request |-> Body(Undefined, Undefined, Undefined),
                            status |-> 302, error |-> "", code |-> "",
                            userId |-> u, cookies |-> TokenCookies]
        /\ UNCHANGED <<users, expiredUpTo, slot, rotated, loggedOut>>
        /\ UNCHANGED nonAuthVars

\* the lock of a locked account runs out (lockUntil passes)
LockExpires(u) ==
    /\ u \in UserIds
    /\ users[u].isLocked
    /\ users' = [users EXCEPT ![u].isLocked = FALSE]
    /\ UNCHANGED <<refreshTokens, issued, expiredUpTo, slot, lastResponse,
                   rotated, loggedOut>>
    /\ UNCHANGED nonAuthVars

\* ------------------------------------------------------------ logout
\* reqUser: the user the access-token middleware put on the request, or 0
Logout(reqUser) ==
    /\ reqUser \in UserIds \cup {0}
    \* an access token exists only for a user who was issued tokens
    /\ reqUser \in UserIds => \E j \in Jtis : issued[j] = reqUser
    /\ refreshTokens' = IF reqUser # 0
                        THEN revokeAllUserTokens(refreshTokens, reqUser)
                        ELSE refreshTokens
    /\ loggedOut' = loggedOut \cup
                    {d.jti : d \in {e \in refreshTokens :
                                      e.userId = reqUser /\ ~e.isBlacklisted}}
    /\ UNCHANGED <<users, issued, expiredUpTo, slot, rotated, lastResponse>>
    /\ UNCHANGED nonAuthVars

\* ------------------------------------------------------------ refresh.js
InFlight == {s \in Slots : slot[s].pc \notin {"idle", "done"}}

RefreshReject(s, cookie) ==
    slot' = [slot EXCEPT ![s] =
                [IdleSlot EXCEPT !.pc = "done", !.status = 401,
                                 !.token = cookie.jti,
                                 !.afterRotation = cookie.jti \in rotated,
                                 !.afterLogout = cookie.jti \in loggedOut]]

\* the request arrives: cookie check, then verifyRefreshToken
RefreshStart(s, cookie) ==
    /\ slot[s].pc = "idle"
    /\ cookie \in Cookies
    /\ Len(issued) + Cardinality(InFlight) < MaxTokens
    /\ IF cookie = Missing \/ ~verifyRefreshToken(refreshTokens, cookie)
       THEN RefreshReject(s, cookie)
       ELSE slot' = [slot EXCEPT ![s] =
                        [IdleSlot EXCEPT !.pc = "verified", !.token = cookie.jti,
                                         !.userId = issued[cookie.jti],
                                         !.afterRotation = cookie.jti \in rotated,
                                         !.afterLogout = cookie.jti \in loggedOut]]
    /\ UNCHANGED <<users, refreshTokens, issued, expiredUpTo, lastResponse,
                   rotated, loggedOut>>
    /\ UNCHANGED nonAuthVars

\* User.findById(decoded.userId)
RefreshFindUser(s) ==
    /\ slot[s].pc = "verified"
    /\ slot' = [slot EXCEPT ![s] =
                   IF slot[s].userId \in UserIds
                   THEN [@ EXCEPT !.pc = "found"]
                   ELSE [@ EXCEPT !.pc = "done", !.status = 401]]
    /\ UNCHANGED <<users, refreshTokens, issued, expiredUpTo, lastResponse,
                   rotated, loggedOut>>
    /\ UNCHANGED nonAuthVars

\* blacklistRefreshToken(decoded.jti)
RefreshBlacklist(s) ==
    /\ slot[s].pc = "found"
    /\ refreshTokens' = blacklistRefreshToken(refreshTokens, slot[s].token)
    /\ slot' = [slot EXCEPT ![s].pc = "blacklisted"]
    /\ UNCHANGED <<users, issued, expiredUpTo, lastResponse, rotated, loggedOut>>
    /\ UNCHANGED nonAuthVars

\* generateAccessToken, generateRefreshToken, cookies, next()
RefreshGenerate(s) ==
    LET jti == Len(issued) + 1
    IN  /\ slot[s].pc = "blacklisted"
        /\ refreshTokens' = generateRefreshToken(refreshTokens, slot[s].userId, jti)
        /\ issued' = Append(issued, slot[s].userId)
        /\ slot' = [slot EXCEPT ![s].pc = "done", ![s].status = 200,
                                ![s].newJti = jti]
        /\ rotated' = rotated \cup {slot[s].token}
        /\ UNCHANGED <<users, expiredUpTo, lastResponse, loggedOut>>
        /\ UNCHANGED nonAuthVars

\* the response has gone out; the slot serves the next request
RefreshReturn(s) ==
    /\ slot[s].pc = "done"
    /\ slot' = [slot EXCEPT ![s] = IdleSlot]
    /\ UNCHANGED <<users, refreshTokens, issued, expiredUpTo, lastResponse,
                   rotated, loggedOut>>
    /\ UNCHANGED nonAuthVars

\* ------------------------------------------------------------ expiry
\* seven days pass for the oldest unexpired refresh token: its JWT is past
\* exp and the TTL index (expireAfterSeconds: 0) removes its document
TokenExpires ==
    /\ expiredUpTo < Len(issued)
    /\ expiredUpTo < MaxExpired
    /\ expiredUpTo' = expiredUpTo + 1
    /\ refreshTokens' = {d \in refreshTokens : d.jti > expiredUpTo + 1}
    /\ UNCHANGED <<users, issued, slot, lastResponse, rotated, loggedOut>>
    /\ UNCHANGED nonAuthVars

\* ------------------------------------------------ accounts: Next
\* registration, e-mail verification and login, from an empty User collection
AccountNext ==
    \/ \E n \in Names, e \in RegisterEmails, p \in Passwords : Register(n, e, p)
    \/ \E u \in UserIds : VerifyEmail(u)
    \/ \E e \in LoginEmails, p \in Passwords, l \in BOOLEAN : Login(e, p, l)
    \/ \E u \in UserIds : GoogleAuthSuccess(u)
    \/ \E u \in UserIds : LockExpires(u)

SpecAccount == AuthInit /\ [][AccountNext]_vars

\* ------------------------------------------------ tokens: Next
\* two registered, verified users; logins, refresh requests (interleaved at
\* their awaits), logouts and token expiry
TokenInit ==
    /\ RecorderIdle
    /\ AnalyticsIdle /\ ClientIdle
    /\ users = <<[NewUser("Al", "a@x.io", "abcdef") EXCEPT !.isVerified = TRUE],
                 [NewUser("Al", "b@x.io", "abcdef") EXCEPT !.isVerified = TRUE]>>
    /\ refreshTokens = {}
    /\ issued = <<>>
    /\ expiredUpTo = 0
    /\ slot = [s \in Slots |-> IdleSlot]
    /\ lastResponse = NoResponse
    /\ rotated = {}
    /\ loggedOut = {}

TokenNext ==
    \/ \E u \in UserIds : Login(users[u].email, "abcdef", FALSE)
    \/ \E u \in UserIds \cup {0} : Logout(u)
    \/ \E s \in Slots, c \in Cookies : RefreshStart(s, c)
    \/ \E s \in Slots : RefreshFindUser(s)
    \/ \E s \in Slots : RefreshBlacklist(s)
    \/ \E s \in Slots : RefreshGenerate(s)
    \/ \E s \in Slots : RefreshReturn(s)
    \/ TokenExpires

SpecAuth == TokenInit /\ [][TokenNext]_vars

\* ------------------------------------------------ session recorder: Next
NBackBody(score, accuracy) ==
    [gameType |-> "n-back", domain |-> "working_memory", difficulty |-> "medium",
     duration |-> Num(60), score |-> score, accuracy |-> accuracy]

HanoiBody ==
    [gameType |-> "tower-hanoi", domain |-> "problem_solving",
     difficulty |-> "hard", duration |-> Num(120), score |-> Num(55),
     accuracy |-> Num(80)]

\* the request bodies submitted: accepted scores as numbers and as a numeric
\* string, and a violation of each validator
Bodies ==
    {NBackBody(sc, Num(100)) : sc \in {Num(0), Num(55), Num(100), Str(7)}}
    \cup {HanoiBody}
    \cup {NBackBody(Num(0 - 1), Num(100)), NBackBody(Num(101), Num(100)),
          NBackBody(Num(55), Num(0 - 1)), NBackBody(Num(55), Num(101)),
          NBackBody(Num(101), Num(101))}
    \cup {[HanoiBody EXCEPT !.gameType = "chess"],
          [HanoiBody EXCEPT !.domain = "memory"],
          [HanoiBody EXCEPT !.difficulty = "extreme"],
          [HanoiBody EXCEPT !.duration = Num(0)]}

RECURSIVE Played(_, _, _)
\* the User document of u after POST /sessions with each of bodies in turn
Played(user, u, bodies) ==
    IF bodies = <<>> THEN user
    ELSE Played(UpdatedUser(user, NewSession(u, Head(bodies)), Head(bodies)),
                u, Tail(bodies))

\* what u2 has submitted before the run: nine sessions, 850 XP, so that the
\* tenth reaches level 2 with or without the bonus of its badge
Veteran ==
    <<NBackBody(Num(100), Num(100)), NBackBody(Num(55), Num(100)),
      NBackBody(Num(55), Num(100)), NBackBody(Num(0), Num(100)),
      NBackBody(Num(0), Num(100)), NBackBody(Num(0), Num(100)),
      NBackBody(Num(0), Num(100)), NBackBody(Num(0), Num(100)),
      NBackBody(Num(0), Num(100))>>

\* u1 has just registered; u2 has played the Veteran sessions
RecorderInit ==
    /\ AuthIdle
    /\ AnalyticsIdle /\ ClientIdle
    /\ sessions = [i \in 1..Len(Veteran) |->
                     [NewSession("u2", Veteran[i]) EXCEPT
                        !.mlPredictions = MlPredictions(Veteran[i], FALSE)]]
    /\ userDocs = [u \in Users |->
                     IF u = "u2" THEN Played(NewUserDoc, u, Veteran) ELSE NewUserDoc]
    /\ lastPost = NoPost
    /\ post = [r \in Slots |-> IdlePost]

\* the users who submit
Players == {"u1", "u2"}

RecorderNext ==
    \E u \in Players, b \in Bodies, mlUp \in BOOLEAN :
        /\ Len(sessions) - Len(Veteran) < MaxSessions
        /\ PostSession(u, b, mlUp)

SpecRecorder == RecorderInit /\ [][RecorderNext]_vars

\* ------------------------------------------- submissions over days: Next
\* the calendar day ends
Midnight ==
    /\ today < MaxDays
    /\ today' = today + 1
    /\ UNCHANGED <<users, refreshTokens, issued, expiredUpTo, slot, lastResponse,
                   rotated, loggedOut, sessions, userDocs, lastPost, post,
                   lastBoard, lastDashboard, lastGet, engine, game, submitted>>

StreakBodies == {HanoiBody, NBackBody(Num(100), Num(100))}

StreakNext ==
    \/ \E u \in Players, b \in StreakBodies, mlUp \in BOOLEAN :
          /\ Len(sessions) < MaxSessions
          /\ PostSession(u, b, mlUp)
    \/ Midnight

SpecStreak == AuthInit /\ [][StreakNext]_vars

\* ------------------------------------- overlapping submissions: Next
\* the bodies submitted while another submission is in flight
SubmitBodies ==
    {NBackBody(Num(100), Num(100)), HanoiBody, NBackBody(Num(101), Num(100))}

SubmitNext ==
    \/ \E r \in Slots, u \in Players, b \in SubmitBodies, dbOk \in BOOLEAN :
          /\ Len(sessions) - Len(Veteran) < MaxSessions
          /\ PostStart(r, u, b, dbOk)
    \/ \E r \in Slots, dbOk \in BOOLEAN : PostFindUser(r, dbOk)
    \/ \E r \in Slots, dbOk \in BOOLEAN : PostSaveUser(r, dbOk)
    \/ \E r \in Slots, mlUp \in BOOLEAN, dbOk \in BOOLEAN :
          PostRespond(r, mlUp, dbOk)

SpecSubmit == RecorderInit /\ [][SubmitNext]_vars

\* ------------------------------------------------ read-only routes: Next
\* the scores a user has submitted before the run, oldest first
BoardLists == {<<>>, <<51>>, <<50, 50, 50, 51>>, <<50, 50, 50, 50, 51>>}
ScoreLists == BoardLists \cup {<<0, 0>>, <<20, 50, 50, 50, 50, 80>>,
                              <<0, 60, 60, 60, 60, 60>>}

\* the Session documents of u for the scores, the ML service being down
SessionDocs(u, scores) ==
    [i \in 1..Len(scores) |->
        [NewSession(u, NBackBody(Num(scores[i]), Num(100))) EXCEPT
            !.mlPredictions = MlPredictions(NBackBody(Num(scores[i]), Num(100)), FALSE)]]

\* every user has submitted one of lists, u1 first and u3 last
HistoryInit(lists) ==
    /\ AuthIdle
    /\ AnalyticsIdle /\ ClientIdle
    /\ lastPost = NoPost
    /\ post = [r \in Slots |-> IdlePost]
    /\ \E h \in [Users -> lists] :
          /\ sessions = SessionDocs("u1", h["u1"]) \o SessionDocs("u2", h["u2"])
                          \o SessionDocs("u3", h["u3"])
          /\ userDocs = [u \in Users |->
                           Played(NewUserDoc, u,
                                  [i \in 1..Len(h[u]) |->
                                      NBackBody(Num(h[u][i]), Num(100))])]

LeaderboardInit == HistoryInit(BoardLists)

\* the range asked for holds every session, the newer half, or none
StartDates == {0, Len(sessions) \div 2, Len(sessions)}

LeaderboardNext ==
    \E u \in Users, limit \in LimitQueries, startDate \in StartDates :
        GetLeaderboard(u, limit, startDate)

SpecLeaderboard == LeaderboardInit /\ [][LeaderboardNext]_vars

DashboardInit == HistoryInit(ScoreLists)

DashboardNext ==
    \E u \in Users, startDate \in 0..Len(sessions) : GetDashboard(u, startDate)

SpecDashboard == DashboardInit /\ [][DashboardNext]_vars

\* the ids asked for: every stored session, one that is stored nowhere, and
\* a string that is not an ObjectId
SessionIds == {ObjectId(n) : n \in 1..(Len(sessions) + 1)} \cup {NotAnObjectId}

\* ------------------------------------------ the Session collection: Next
\* every route that writes a Session document, from an empty collection
StoreBodies == {HanoiBody}

StoreNext ==
    \/ \E u \in Players, b \in StoreBodies :
          /\ Len(sessions) < MaxSessions
          /\ PostStart("r1", u, b, TRUE)
    \/ PostFindUser("r1", TRUE)
    \/ PostSaveUser("r1", TRUE)
    \/ \E mlUp \in BOOLEAN : PostRespond("r1", mlUp, TRUE)
    \/ \E u \in Players, id \in SessionIds, isAnomaly \in BOOLEAN,
          reasons \in AnomalyReasons : PostAnomaly(u, id, isAnomaly, reasons)

SpecStore == AuthInit /\ [][StoreNext]_vars

ReaderInit == HistoryInit(BoardLists)

ReaderNext ==
    \/ \E u \in Users, id \in SessionIds : GetSession(u, id)
    \/ \E u \in Users, g \in {Undefined, "n-back", "tower-hanoi"},
          page \in {0, 1, 2}, limit \in {1, 20} : GetSessions(u, g, page, limit)

SpecReader == ReaderInit /\ [][ReaderNext]_vars

\* ------------------------------------------------------------ GameEngine
\* GAMES[gameId].domain
GameDomain(gameId) ==
    CASE gameId \in {"n-back", "dual-task"} -> "working_memory"
      [] gameId \in {"flanker", "attention-network"} -> "attention"
      [] gameId \in {"simple-reaction", "choice-reaction"} -> "processing_speed"
      [] gameId \in {"ravens-matrices", "tower-hanoi"} -> "problem_solving"

\* gameConfig.trials || 20; a config without trials is written trials = 0,
\* which || treats the same way
DefaultTrials == 20
TotalTrials(trials) == IF trials = 0 THEN DefaultTrials ELSE trials

\* the gameConfig prop GameSession passes to GameEngine
GameConfig(gameId, difficulty, trials) ==
    [gameId |-> gameId, domain |-> GameDomain(gameId), difficulty |-> difficulty,
     totalTrials |-> TotalTrials(trials)]

\* Date.now() - trialStartTime of a response, in ms: quick, and slower than
\* the 2000 ms the bonus counts from
ReactionTimes == {300, 2500}
\* Date.now() - gameSession.startTime when the game ends, in ms
ElapsedMs == {400, 65500}

\* the component's state after the first render; processed counts the
\* responses handleResponse has recorded
MountedEngine(gameConfig) ==
    [gameState |-> "ready", currentTrial |-> 0, trialStartTime |-> FALSE,
     responses |-> <<>>, gameConfig |-> gameConfig, processed |-> 0]

\* responses.filter(r => r.correct)
RECURSIVE CorrectOnes(_)
CorrectOnes(rs) ==
    IF rs = <<>> THEN <<>>
    ELSE IF rs[1].correct THEN <<rs[1]>> \o CorrectOnes(Tail(rs))
    ELSE CorrectOnes(Tail(rs))

\* correctResponseTimes.reduce((sum, rt) => sum + rt, 0)
RECURSIVE SumTimes(_)
SumTimes(rs) == IF rs = <<>> THEN 0 ELSE rs[1].reactionTime + SumTimes(Tail(rs))

\* the score endGame computes from accuracy and avgReactionTime
GameScore(accuracy, avgReactionTime) ==
    LET base == accuracy
        reactionTimeBonus ==
            IF RLess(RInt(2000), avgReactionTime) THEN RInt(0)
            ELSE RMul(RDiv(RSub(RInt(2000), avgReactionTime), 2000), 20)
        sum == RAdd(accuracy, reactionTimeBonus)
        bonused == IF ~RLess(accuracy, RInt(50)) /\ RLess(RInt(0), avgReactionTime)
                   THEN (IF RLess(RInt(100), sum) THEN RInt(100) ELSE sum)
                   ELSE base
    IN  IF RLess(accuracy, RInt(30)) THEN RDiv(accuracy, 2) ELSE bonused

\* Math.floor(ms / 1000) and Math.round(x) of a value that is not negative
SecondsOf(ms) == ms \div 1000
MathRound(x) == RoundHalfUp(x, 1)[1]

\* the sessionData endGame builds from the responses it is given
SessionData(gameConfig, responses, elapsed) ==
    LET correctResponses == Len(CorrectOnes(responses))
        totalResponses == Len(responses)
        accuracy == IF totalResponses > 0
                    THEN Rat(correctResponses * 100, totalResponses)
                    ELSE RInt(0)
        avgReactionTime ==
            IF correctResponses > 0
            THEN Rat(SumTimes(CorrectOnes(responses)), correctResponses)
            ELSE RInt(0)
    IN  [gameType |-> gameConfig.gameId, domain |-> gameConfig.domain,
         difficulty |-> gameConfig.difficulty,
         duration |-> Num(SecondsOf(elapsed)),
         score |-> Num(MathRound(GameScore(accuracy, avgReactionTime))),
         accuracy |-> Num(MathRound(accuracy)),
         reactionTime |-> Num(MathRound(avgReactionTime)),
         metrics |-> [correctResponses |-> correctResponses,
                      totalResponses |-> totalResponses,
                      errors |-> totalResponses - correctResponses]]

\* ------------------------------------------------------------ TowerHanoiGame
\* generateGameConfig('tower-hanoi', difficulty).disks
Disks(difficulty) ==
    IF difficulty = "easy" THEN 3 ELSE IF difficulty = "medium" THEN 4 ELSE 5

\* selectedTower === null
NoTower == 0 - 1

\* initialTowers: disks config.disks down to 1 pushed on the first tower; a
\* tower is the sequence of its disks from the bottom to the top
InitialTowers(disks) == <<[i \in 1..disks |-> disks + 1 - i], <<>>, <<>>>>

\* the component once its first effects have run; timer tells whether the
\* 1500 ms timeout of the completion effect is pending, reported counts the
\* calls of onResponse
MountedHanoi(gameConfig) ==
    [component |-> "tower-hanoi", disks |-> Disks(gameConfig.difficulty),
     towers |-> InitialTowers(Disks(gameConfig.difficulty)),
     selectedTower |-> NoTower, moves |-> 0, gameStarted |-> TRUE,
     gameCompleted |-> FALSE, timer |-> FALSE, reported |-> 0]

\* the top disk of a tower that is not empty
TopDisk(tower) == tower[Len(tower)]

canMove_always(targetTower, disk) == TRUE

\* targetTower.length === 0 || targetTower[targetTower.length - 1] > disk
canMove(targetTower, disk) == targetTower = <<>> \/ TopDisk(targetTower) > disk

\* newTowers after the disk on top of tower from went to tower to (0..2)
MoveDisk(towers, from, to) ==
    [towers EXCEPT ![from + 1] = SubSeq(@, 1, Len(@) - 1),
                   ![to + 1] = Append(@, TopDisk(towers[from + 1]))]

\* the state handleTowerClick(towerIndex) leaves
AfterTowerClick(g, towerIndex) ==
    IF g.gameCompleted THEN g
    ELSE IF g.selectedTower = NoTower
    THEN (IF g.towers[towerIndex + 1] # <<>>
          THEN [g EXCEPT !.selectedTower = towerIndex] ELSE g)
    ELSE IF g.selectedTower # towerIndex
            /\ canMove(g.towers[towerIndex + 1], TopDisk(g.towers[g.selectedTower + 1]))
    THEN [g EXCEPT !.towers = MoveDisk(@, g.selectedTower, towerIndex),
                   !.moves = @ + 1, !.selectedTower = NoTower]
    ELSE [g EXCEPT !.selectedTower = NoTower]

\* the completion effect, which runs when towers has changed
AfterCompletionEffect(g) ==
    IF g.gameStarted /\ ~g.gameCompleted /\ Len(g.towers[3]) = g.disks
    THEN [g EXCEPT !.gameCompleted = TRUE, !.timer = TRUE]
    ELSE g

\* ------------------------------------------- SimpleReactionGame, ChoiceReactionGame
\* generateGameConfig('choice-reaction', difficulty).choiceOptions
choiceOptions(difficulty) ==
    IF difficulty = "easy" THEN 2 ELSE IF difficulty = "medium" THEN 4 ELSE 8

\* SimpleReactionGame once its first effect has run: the stimulus timeout is
\* pending.  reports lists the calls of onResponse: the trial each was made
\* in and whether the stimulus was on the screen
MountedSimpleReaction ==
    [component |-> "simple-reaction", mounted |-> TRUE, stimulus |-> 0,
     showStimulus |-> FALSE, waitingForResponse |-> FALSE,
     stimulusStartTime |-> FALSE, gamePhase |-> "waiting", timer |-> TRUE,
     reports |-> <<>>]

\* ChoiceReactionGame once its first effect has run, showing stimulusValue
MountedChoiceReaction(stimulusValue) ==
    [component |-> "choice-reaction", mounted |-> TRUE, stimulus |-> stimulusValue,
     showStimulus |-> TRUE, waitingForResponse |-> FALSE,
     stimulusStartTime |-> TRUE, gamePhase |-> "none", timer |-> FALSE,
     reports |-> <<>>]

\* what the render shows: the red circle, the coloured square
SimpleDisplayed(g) == g.gamePhase = "stimulus" /\ g.showStimulus
ChoiceDisplayed(g) == g.showStimulus

SimpleAccepts_always(g) == TRUE

\* the guard of SimpleReactionGame's handleResponse
SimpleAccepts(g) ==
    g.waitingForResponse /\ g.stimulusStartTime /\ g.gamePhase = "stimulus"

\* the guard of ChoiceReactionGame's handleResponse
ChoiceAccepts(g) == g.showStimulus /\ g.stimulusStartTime

\* GameRenderer: the components gameConfig.gameId can start as, after their
\* first effects; NoGame stands for a component whose state is not followed
GameRenderer(gameConfig) ==
    IF gameConfig.gameId = "tower-hanoi" THEN {MountedHanoi(gameConfig)}
    ELSE IF gameConfig.gameId = "simple-reaction" THEN {MountedSimpleReaction}
    ELSE IF gameConfig.gameId = "choice-reaction"
    THEN {MountedChoiceReaction(v) : v \in 0..(choiceOptions(gameConfig.difficulty) - 1)}
    ELSE {NoGame}

\* what the browser leaves alone
serverVars == <<users, refreshTokens, issued, expiredUpTo, slot, lastResponse,
                rotated, loggedOut, sessions, userDocs, lastPost, post,
                lastBoard, lastDashboard, lastGet, today>>

\* GameSession renders <GameEngine gameConfig=... />
MountEngine(gameConfig) ==
    /\ engine = NoEngine
    /\ engine' = MountedEngine(gameConfig)
    /\ UNCHANGED <<game, submitted, serverVars>>

\* startGame, the handler of the Start button that the 'ready' screen shows;
\* the 'playing' screen renders the game component
startGame ==
    /\ engine.gameState = "ready"
    /\ engine' = [engine EXCEPT !.gameState = "playing", !.currentTrial = 0,
                                !.trialStartTime = TRUE, !.responses = <<>>]
    /\ game' \in GameRenderer(engine.gameConfig)
    /\ UNCHANGED <<submitted, serverVars>>

\* currentTrial + 1 >= gameConfig.totalTrials
LastTrial_late(e) == e.currentTrial >= e.gameConfig.totalTrials

LastTrial(e) == e.currentTrial + 1 >= e.gameConfig.totalTrials

\* the responses endGame reads: those of the render handleResponse was
\* created in, which the response being handled is not part of yet
EndGameResponses(e, responseData) == e.responses

\* handleResponse(response), endGame included; it reads the state of the
\* render it was created in, and a render follows every call
EngineAfterResponse(e, responseData) ==
    IF e.gameState # "playing" \/ ~e.trialStartTime THEN e
    ELSE IF LastTrial(e)
    THEN [e EXCEPT !.responses = Append(@, responseData),
                   !.processed = @ + 1, !.gameState = "finished"]
    ELSE [e EXCEPT !.responses = Append(@, responseData),
                   !.processed = @ + 1, !.currentTrial = @ + 1]

\* the summaries sent once handleResponse has run
SubmittedAfterResponse(e, responseData, elapsed) ==
    IF e.gameState = "playing" /\ e.trialStartTime /\ LastTrial(e)
    THEN Append(submitted,
                SessionData(e.gameConfig, EndGameResponses(e, responseData), elapsed))
    ELSE submitted

handleResponse(correct, reactionTime, elapsed) ==
    LET responseData == [correct |-> correct, reactionTime |-> reactionTime]
    IN  /\ engine # NoEngine
        /\ engine' = EngineAfterResponse(engine, responseData)
        /\ submitted' = SubmittedAfterResponse(engine, responseData, elapsed)
        /\ UNCHANGED <<game, serverVars>>

\* a click on a tower, and the effects of the render that follows
handleTowerClick(towerIndex) ==
    /\ game.component = "tower-hanoi"
    /\ game.moves < MaxMoves
    /\ game' = AfterCompletionEffect(AfterTowerClick(game, towerIndex))
    /\ UNCHANGED <<engine, submitted, serverVars>>

\* the timeout of the completion effect calls onResponse({ correct: true })
HanoiTimeout(reactionTime, elapsed) ==
    LET responseData == [correct |-> TRUE, reactionTime |-> reactionTime]
    IN  /\ game.component = "tower-hanoi"
        /\ game.timer
        /\ engine' = EngineAfterResponse(engine, responseData)
        /\ submitted' = SubmittedAfterResponse(engine, responseData, elapsed)
        /\ game' = IF engine'.gameState = "finished" THEN NoGame
                   ELSE [game EXCEPT !.timer = FALSE, !.reported = @ + 1]
        /\ UNCHANGED serverVars

\* the stimulus timeout of SimpleReactionGame fires
SimpleStimulus ==
    /\ game.component = "simple-reaction" /\ game.mounted
    /\ game.timer
    /\ game' = [game EXCEPT !.showStimulus = TRUE, !.waitingForResponse = TRUE,
                            !.stimulusStartTime = TRUE, !.gamePhase = "stimulus",
                            !.timer = FALSE]
    /\ UNCHANGED <<engine, submitted, serverVars>>

\* the component after onResponse went to the engine: unmounted with the
\* engine when the game has ended, and otherwise shown the next trial, whose
\* effect has run
AfterReport(g, e, next) ==
    IF e.gameState = "finished" THEN [g EXCEPT !.mounted = FALSE, !.timer = FALSE]
    ELSE IF e.currentTrial = engine.currentTrial THEN g
    ELSE next

\* SimpleReactionGame's handleResponse, and the render that follows
SimpleResponse(reactionTime, elapsed) ==
    LET responseData == [correct |-> TRUE, reactionTime |-> reactionTime]
        responded == [game EXCEPT !.waitingForResponse = FALSE,
                                  !.showStimulus = FALSE,
                                  !.gamePhase = "responded",
                                  !.reports = Append(@,
                                      [trial |-> engine.currentTrial,
                                       displayed |-> SimpleDisplayed(game)])]
    IN  /\ game.component = "simple-reaction" /\ game.mounted
        /\ IF ~SimpleAccepts(game) THEN UNCHANGED <<engine, game, submitted>>
           ELSE /\ engine' = EngineAfterResponse(engine, responseData)
                /\ submitted' = SubmittedAfterResponse(engine, responseData, elapsed)
                /\ game' = AfterReport(responded, engine',
                              [responded EXCEPT !.gamePhase = "waiting",
                                                !.timer = TRUE])
        /\ UNCHANGED serverVars

\* ChoiceReactionGame's handleResponse(choice), and the render that follows,
\* whose effect draws stimulusValue
ChoiceResponse(choice, stimulusValue, reactionTime, elapsed) ==
    LET responseData == [correct |-> choice = game.stimulus,
                         reactionTime |-> reactionTime]
        responded == [game EXCEPT !.showStimulus = FALSE,
                                  !.reports = Append(@,
                                      [trial |-> engine.currentTrial,
                                       displayed |-> ChoiceDisplayed(game)])]
    IN  /\ game.component = "choice-reaction" /\ game.mounted
        /\ IF ~ChoiceAccepts(game) THEN UNCHANGED <<engine, game, submitted>>
           ELSE /\ engine' = EngineAfterResponse(engine, responseData)
                /\ submitted' = SubmittedAfterResponse(engine, responseData, elapsed)
                /\ game' = AfterReport(responded, engine',
                              [responded EXCEPT !.stimulus = stimulusValue,
                                                !.showStimulus = TRUE,
                                                !.stimulusStartTime = TRUE])
        /\ UNCHANGED serverVars

\* ------------------------------------------------------- GameEngine: Next
EngineGames == {"n-back", "flanker"}
EngineDifficulties == {"easy", "hard"}

EngineNext ==
    \/ \E g \in EngineGames, d \in EngineDifficulties, n \in 1..MaxTrials :
          MountEngine(GameConfig(g, d, n))
    \/ startGame
    \/ \E c \in BOOLEAN, rt \in ReactionTimes, ms \in ElapsedMs :
          handleResponse(c, rt, ms)

SpecEngine == AuthInit /\ [][EngineNext]_vars

\* ---------------------------------------------------- TowerHanoiGame: Next
HanoiDifficulties == {"easy", "medium"}
HanoiNext ==
    \* a tower-hanoi config has no trials
    \/ \E d \in HanoiDifficulties : MountEngine(GameConfig("tower-hanoi", d, 0))
    \/ startGame
    \/ \E t \in 0..2 : handleTowerClick(t)
    \/ \E rt \in ReactionTimes, ms \in ElapsedMs : HanoiTimeout(rt, ms)

SpecHanoi == AuthInit /\ [][HanoiNext]_vars

\* the browser runs a timeout that is due
SpecHanoiFair ==
    SpecHanoi /\ WF_vars(\E rt \in ReactionTimes, ms \in ElapsedMs : HanoiTimeout(rt, ms))

\* ------------------------------------------------ reaction games: Next
ReactionGames == {"simple-reaction", "choice-reaction"}
\* the choices of an easy choice-reaction game
Choices == 0..(choiceOptions("easy") - 1)

ReactionNext ==
    \/ \E g \in ReactionGames, n \in 1..MaxTrials : MountEngine(GameConfig(g, "easy", n))
    \/ startGame
    \/ SimpleStimulus
    \/ \E rt \in ReactionTimes, ms \in ElapsedMs : SimpleResponse(rt, ms)
    \/ \E c \in Choices, v \in Choices, rt \in ReactionTimes, ms \in ElapsedMs :
          ChoiceResponse(c, v, rt, ms)

SpecReaction == AuthInit /\ [][ReactionNext]_vars

\* ------------------------------------------------------------ C1
\* C1: a refresh request that presents a token whose earlier refresh request
\* has already completed with 200 is answered 401 and creates no
\* refresh-token document.
C1_RotatedTokenIsRejected ==
    \A s \in Slots :
        slot[s].afterRotation =>
            /\ slot[s].pc = "done"
            /\ slot[s].status = 401
            /\ slot[s].newJti = 0
            /\ \A d \in refreshTokens : d.jti = slot[s].token => d.isBlacklisted

C1_Witness ==
    \E s \in Slots :
        /\ slot[s].afterRotation
        /\ slot[s].pc = "done"
        /\ slot[s].status = 401
        /\ slot[s].token \in rotated

\* ------------------------------------------------------------ C2
\* C2: every document that was its user's and not blacklisted when that
\* user's logout ran (the jtis in loggedOut) is blacklisted from then on, and
\* a later refresh request with such a token is answered 401 and creates no
\* document; the logout leaves the other users' documents alone: a document
\* is blacklisted only by its own user's logout or by its own rotation.
C2_LogoutRevokesAll ==
    /\ \A d \in refreshTokens : d.jti \in loggedOut => d.isBlacklisted
    /\ \A d \in refreshTokens :
          d.isBlacklisted =>
              \/ d.jti \in loggedOut
              \/ d.jti \in rotated
              \/ \E s \in Slots : slot[s].pc = "blacklisted" /\ slot[s].token = d.jti
    /\ \A d \in refreshTokens : d.jti \in Jtis /\ d.userId = issued[d.jti]
    /\ \A s \in Slots :
          slot[s].afterLogout =>
              /\ slot[s].pc = "done"
              /\ slot[s].status = 401
              /\ slot[s].newJti = 0

\* a logout has revoked two tokens of one user while another user's token
\* stays active, and a refresh with a revoked token was then rejected
C2_Witness ==
    /\ \E j, k \in loggedOut : j # k /\ issued[j] = issued[k]
    /\ \E d \in refreshTokens : ~d.isBlacklisted /\ d.jti \notin loggedOut
    /\ \E s \in Slots : slot[s].afterLogout /\ slot[s].status = 401

\* ------------------------------------------------------------ C8
PasswordTooShort == "Password must be at least 6 characters long"

\* the request carries a password (a string) of fewer than 6 characters
ShortPassword(p) == p # Undefined /\ Len(p) < 6

\* the step is the handling of the registration request that lastResponse'
\* records
RegisterStep ==
    /\ lastResponse'.op = "register"
    /\ Register(lastResponse'.request.name, lastResponse'.request.email,
                lastResponse'.request.password)

LoginStep ==
    /\ lastResponse'.op = "login"
    /\ \E locks \in BOOLEAN :
          Login(lastResponse'.request.email, lastResponse'.request.password, locks)

\* the step is an OAuth success for the user lastResponse' records
GoogleStep ==
    /\ lastResponse'.op = "google"
    /\ GoogleAuthSuccess(lastResponse'.userId)

\* the step sets the two token cookies and adds exactly one refresh-token
\* record: of the user answered, not blacklisted, its jti issued to nobody
\* before
OneNewToken ==
    /\ lastResponse'.cookies = TokenCookies
    /\ \E d \in refreshTokens' :
          /\ d \notin refreshTokens
          /\ refreshTokens' = refreshTokens \cup {d}
          /\ ~d.isBlacklisted
          /\ d.userId = lastResponse'.userId
          /\ d.jti \notin DOMAIN issued
          /\ \A e \in refreshTokens : e.jti # d.jti

Started(s) == slot[s].pc = "idle" /\ slot'[s].pc # "idle"

\* the token presented is missing or not signed by this server (jti 0), is
\* past its expiry, or has no non-blacklisted record of its user
BadToken(jti) ==
    \/ jti = 0
    \/ jti <= expiredUpTo
    \/ ~\E d \in refreshTokens :
            d.jti = jti /\ d.userId = issued[jti] /\ ~d.isBlacklisted

\* C12: a refresh request whose token is missing, has an invalid signature,
\* is expired, or whose jti has no persisted non-blacklisted record of that
\* user is answered 401; it creates no refresh-token record, blacklists no
\* record and sets no new cookies.
C12_BadTokenRejected ==
    [][\A s \in Slots :
          (Started(s) /\ BadToken(slot'[s].token)) =>
              /\ slot'[s].pc = "done"
              /\ slot'[s].status = 401
              /\ slot'[s].newJti = 0
              /\ refreshTokens' = refreshTokens
              /\ issued' = issued]_vars

\* an expired token and a token this server did not sign have been refused
\* while a valid record exists
C12_Witness ==
    /\ slot["r1"].pc = "done" /\ slot["r1"].status = 401
    /\ slot["r1"].token \in 1..expiredUpTo
    /\ slot["r2"].pc = "done" /\ slot["r2"].status = 401
    /\ slot["r2"].token = 0
    /\ \E d \in refreshTokens : ~d.isBlacklisted

\* ------------------------------------------------------------ C13
\* C13: a validated submission is all or nothing: a request answered 201 has
\* persisted its Session, and a request that ended in the error response has
\* persisted no Session (post[r].sid is the _id of the Session the request
\* saved, 0 when it saved none; Sessions are never deleted).
C13_AllOrNothing ==
    \A r \in Slots :
        post[r].pc = "done" =>
            /\ post[r].status = 201 => post[r].sid \in 1..Len(sessions)
            /\ post[r].status = 500 => post[r].sid = 0

\* ------------------------------------------------------------ C14
\* C14: when the ML service fails during a valid submission, the request is
\* still answered 201, the stored session carries the local fallback
\* predictions whose recommendedDifficulty is the submitted difficulty, and
\* the user document is updated exactly as computed from the submission.
C14_MlFallback ==
    [][\A u \in Players, b \in Bodies :
          (validationErrors(b) = {} /\ PostSession(u, b, FALSE)) =>
              /\ lastPost'.status = 201
              /\ Len(sessions') = Len(sessions) + 1
              /\ sessions'[Len(sessions')].userId = u
              /\ sessions'[Len(sessions')].mlPredictions =
                    [source |-> "fallback",
                     recommendedDifficulty |-> b.difficulty]
              /\ userDocs' = [userDocs EXCEPT
                                ![u] = UpdatedUser(@, NewSession(u, b), b)]]_vars

\* a hard session was stored with the fallback predictions
C14_Witness ==
    /\ lastPost.status = 201
    /\ Len(sessions) > Len(Veteran)
    /\ sessions[Len(sessions)].difficulty = "hard"
    /\ sessions[Len(sessions)].mlPredictions =
          [source |-> "fallback", recommendedDifficulty |-> "hard"]

\* ------------------------------------------------------------ C15
\* the badges the submission qualifies for that the user did not hold before
NewlyEarned(before, after, session) ==
    {id \in {"first-session", "perfect-score", "sessions-10", "sessions-25",
             "sessions-50", "sessions-100", "streak-7", "streak-14", "streak-30"} :
        /\ ~HasBadge(before, id)
        /\ \/ id = "first-session" /\ after.stats.totalSessions = 1
           \/ id = "perfect-score" /\ session.score = 100
           \/ id = "sessions-10" /\ after.stats.totalSessions = 10
           \/ id = "sessions-25" /\ after.stats.totalSessions = 25
           \/ id = "sessions-50" /\ after.stats.totalSessions = 50
           \/ id = "sessions-100" /\ after.stats.totalSessions = 100
           \/ id = "streak-7" /\ after.streak = 7
           \/ id = "streak-14" /\ after.streak = 14
           \/ id = "streak-30" /\ after.streak = 30}

\* C15: a successful submission with score s that newly earns k badges raises
\* the user's xp by exactly floor(s / 10) * 10 + 50 + 100 * k, where k counts
\* only the badges the user did not already hold.
C15_XpRaise ==
    [][(lastPost'.status = 201 /\ Len(sessions') = Len(sessions) + 1) =>
          LET u == lastPost'.userId
              session == sessions'[Len(sessions')]
              k == Cardinality(NewlyEarned(userDocs[u], userDocs'[u], session))
          IN  /\ userDocs'[u].xp - userDocs[u].xp =
                    (session.score \div 10) * 10 + 50 + 100 * k
              /\ Len(userDocs'[u].badges) - Len(userDocs[u].badges) = k]_vars

\* the tenth session of u2, a second perfect score: one new badge, not two
C15_Witness ==
    /\ lastPost.status = 201
    /\ lastPost.userId = "u2"
    /\ userDocs["u2"].stats.totalSessions = 10
    /\ sessions[Len(sessions)].score = 100
    /\ userDocs["u2"].xp = 850 + 150 + 100

\* ------------------------------------------------------------ C16
\* C16: the response of a successful submission reports leveledUp = true
\* exactly when the user's level after the submission, badge-bonus XP
\* included, is greater than the level before it, and currentLevel is the
\* persisted level.
C16_LeveledUpReported ==
    [][(lastPost'.status = 201 /\ Len(sessions') = Len(sessions) + 1) =>
          LET u == lastPost'.userId
          IN  /\ lastPost'.leveledUp <=> userDocs'[u].level > userDocs[u].level
              /\ lastPost'.currentLevel = userDocs'[u].level]_vars

\* ------------------------------------------------------------ C17
\* C17: GET /sessions/:id answers with a session only when the session exists
\* and belongs to the requester, and otherwise (an id no session has, or the
\* id of another user's session) answers 404 with no session; GET /sessions
\* lists only sessions of the requester.
C17_OwnSessionsOnly ==
    /\ lastGet.route = "one" =>
          LET id == lastGet.id
              own == /\ id.cast
                     /\ id.n \in 1..Len(sessions)
                     /\ sessions[id.n].userId = lastGet.requester
          IN  IF own
              THEN lastGet.status = 200 /\ lastGet.sessions = <<sessions[id.n]>>
              ELSE lastGet.status = 404 /\ lastGet.sessions = <<>>
    /\ lastGet.route = "list" =>
          \A i \in 1..Len(lastGet.sessions) :
              lastGet.sessions[i].userId = lastGet.requester

\* ------------------------------------------------------------ C18
\* the account the login request of this step names, as a set of ids
LoginAccount == FindUserByEmail(toLowerCase(lastResponse'.request.email))

\* the step creates no refresh-token record, signs no token, sets no cookie
\* and leaves every lastLogin as it was
NoLogin ==
    /\ lastResponse'.status # 200
    /\ refreshTokens' = refreshTokens
    /\ issued' = issued
    /\ lastResponse'.cookies = {}
    /\ Len(users') = Len(users)
    /\ \A u \in UserIds : users'[u].lastLogin = users[u].lastLogin

\* the login of this step names an existing unverified account and gives its
\* password
UnverifiedLogin(u) ==
    /\ u \in LoginAccount
    /\ users[u].password = Hash(lastResponse'.request.password)
    /\ ~users[u].isVerified

C19_SingleUse ==
    \A s, t \in Slots :
        (s # t /\ slot[s].token = slot[t].token /\ slot[s].token \in Jtis) =>
            ~(slot[s].status = 200 /\ slot[t].status = 200)

\* ------------------------------------------------------------ C20
\* C20: submissions of one user can overlap so that both Session records are
\* persisted while the user's totalSessions, averageScore and xp reflect only
\* one of them: every user.save() writes the values its request computed
\* from the document it read, whatever another request has saved since, and
\* removes no Session.
C20_LastWriteWins ==
    [][\A r \in Slots :
          (post[r].pc = "loaded" /\ post'[r].pc = "userSaved") =>
              LET u == post[r].userId
                  read == post[r].user
                  own == UpdatedUser(read, sessions[post[r].sid], post[r].body)
              IN  /\ sessions' = sessions
                  /\ userDocs'[u].stats.totalSessions = read.stats.totalSessions + 1
                  /\ userDocs'[u].xp = own.xp
                  /\ userDocs'[u].stats.averageScore \in
                        {own.stats.averageScore, userDocs[u].stats.averageScore}
                  /\ own.stats.averageScore # read.stats.averageScore =>
                        userDocs'[u].stats.averageScore = own.stats.averageScore]_vars

\* two submissions of the new user u1, scores 100 and 55, were both answered
\* 201 and both Sessions are stored, and the user document counts one
\* session, with the average and the XP of the score-100 submission alone
C20_Witness ==
    /\ \A r \in Slots : /\ post[r].pc = "done"
                         /\ post[r].status = 201
                         /\ post[r].userId = "u1"
    /\ post["r1"].sid # post["r2"].sid
    /\ {sessions[post[r].sid].score : r \in Slots} = {100, 55}
    /\ \A r \in Slots : sessions[post[r].sid].userId = "u1"
    /\ userDocs["u1"].stats.totalSessions = 1
    /\ userDocs["u1"].stats.averageScore = RInt(100)
    /\ userDocs["u1"].xp = 350

\* ------------------------------------------------------------ C21
\* the fields of a Session document outside the three named
Created(session) ==
    [session EXCEPT !.mlPredictions = NoPredictions, !.anomalyFlag = FALSE,
                    !.anomalyReason = "unset"]

\* C21 as stated: a stored Session changes in no field other than
\* mlPredictions.
C21_Original ==
    [][/\ Len(sessions') >= Len(sessions)
       /\ \A i \in 1..Len(sessions) :
             [sessions'[i] EXCEPT !.mlPredictions = NoPredictions] =
                 [sessions[i] EXCEPT !.mlPredictions = NoPredictions]]_vars

\* C21: no Session is removed, and a stored Session changes only in
\* mlPredictions, written by the request that created it, and in anomalyFlag
\* and anomalyReason, written by a POST /ml/anomaly of its owner answered 200.
C21_WriteOnce ==
    [][/\ Len(sessions') >= Len(sessions)
       /\ \A i \in 1..Len(sessions) :
             /\ Created(sessions'[i]) = Created(sessions[i])
             /\ sessions'[i].mlPredictions # sessions[i].mlPredictions =>
                   \E r \in Slots : post[r].pc = "userSaved" /\ post[r].sid = i
             /\ (\/ sessions'[i].anomalyFlag # sessions[i].anomalyFlag
                 \/ sessions'[i].anomalyReason # sessions[i].anomalyReason) =>
                   /\ lastGet'.route = "anomaly"
                   /\ lastGet'.status = 200
                   /\ lastGet'.id = ObjectId(i)
                   /\ lastGet'.requester = sessions[i].userId
                   /\ sessions'[i].anomalyFlag]_vars

\* a session that has its predictions was flagged afterwards
C21_Witness ==
    \E i \in 1..Len(sessions) :
        /\ sessions[i].mlPredictions # NoPredictions
        /\ sessions[i].anomalyFlag
        /\ sessions[i].anomalyReason # "unset"
        /\ sessions[i].score = 55
        /\ lastGet.route = "anomaly" /\ lastGet.id = ObjectId(i)

\* ------------------------------------------------------------ C22
RECURSIVE DaysInARow(_, _)
\* the number of consecutive calendar days, ending with day d, on each of
\* which u has submitted a session
DaysInARow(u, d) ==
    IF d >= 0 /\ \E i \in 1..Len(sessions) :
                     sessions[i].userId = u /\ sessions[i].createdAt = d
    THEN 1 + DaysInARow(u, d - 1)
    ELSE 0

\* C22: a user who has submitted a session today, the k-th consecutive
\* calendar day with a session, has streak k (1 after a day without a
\* session), and lastActiveDate is today.
C22_StreakCounts ==
    \A u \in Players :
        DaysInARow(u, today) >= 1 =>
            /\ userDocs[u].streak = DaysInARow(u, today)
            /\ userDocs[u].lastActiveDate = today

\* ------------------------------------------------------------ C23
\* C23: a GameEngine moves only from ready to playing to finished.  A response
\* is processed only while playing; while playing 0 <= currentTrial <
\* totalTrials; a processed response either adds exactly one to currentTrial
\* or, being the totalTrials-th, finishes the game; a finished engine never
\* changes again and processes nothing.
C23_EngineLifecycle ==
    [][/\ engine'.gameState # engine.gameState =>
             <<engine.gameState, engine'.gameState>> \in
                 {<<"unmounted", "ready">>, <<"ready", "playing">>,
                  <<"playing", "finished">>}
       /\ engine'.processed # engine.processed =>
             /\ engine.gameState = "playing"
             /\ engine'.processed = engine.processed + 1
             /\ \/ /\ engine'.gameState = "playing"
                   /\ engine'.currentTrial = engine.currentTrial + 1
                \/ /\ engine'.gameState = "finished"
                   /\ engine'.processed = engine.gameConfig.totalTrials
       /\ engine'.currentTrial # engine.currentTrial =>
             engine'.processed # engine.processed
       /\ engine'.gameState = "playing" =>
             /\ 0 <= engine'.currentTrial
             /\ engine'.currentTrial < engine'.gameConfig.totalTrials
       /\ engine.gameState = "finished" => engine' = engine]_vars

\* a game of several trials was played to its end
C23_Witness ==
    /\ engine.gameState = "finished"
    /\ engine.processed = engine.gameConfig.totalTrials
    /\ engine.processed >= 2

\* ------------------------------------------------------------ C28
\* C28: the summary a finished GameEngine has submitted is computed over all
\* totalTrials responses: metrics.totalResponses = totalTrials, and the
\* correct count, accuracy and score are those of the full list of responses,
\* the final one included.
C28_SummaryCountsAllTrials ==
    engine.gameState = "finished" =>
        \A i \in 1..Len(submitted) :
            /\ submitted[i].metrics.totalResponses = engine.gameConfig.totalTrials
            /\ \E ms \in ElapsedMs :
                  submitted[i] = SessionData(engine.gameConfig, engine.responses, ms)

\* ------------------------------------------------------------ C30
\* C30: every summary GameEngine submits passes the recorder's validators:
\* gameType, domain and difficulty in their enumerations, duration an integer
\* of at least 1, score and accuracy within [0, 100].
C30_SummaryIsValid ==
    \A i \in 1..Len(submitted) : validationErrors(submitted[i]) = {}

\* ------------------------------------------------------------ C24
\* the sessions the last GET /dashboard answered from, newest first
DashboardSessions ==
    Reverse(SelectSeq(Since(lastDashboard.startDate),
                      LAMBDA x : x.userId = lastDashboard.userId))

\* the label for recent and older: the mean of recent compared with the mean
\* of older and a margin of 5% of the latter (1/20), in integers
LabelFor(recent, older) ==
    LET r == SumScores(recent) * Len(older) * 20
        o == SumScores(older) * Len(recent)
    IN  IF older = <<>> THEN "stable"
        ELSE IF r > 21 * o THEN "improving"
        ELSE IF r < 19 * o THEN "declining"
        ELSE "stable"

\* C24: for a history of at least two sessions, newest first, the trend is
\* 'improving' when the mean score of the 5 most recent sessions exceeds the
\* mean of the preceding 5 by more than 5% of the latter, 'declining' when it
\* is lower by more than 5%, 'stable' otherwise, and 'stable' when no session
\* precedes the 5 most recent.
C24_TrendLabel ==
    lastDashboard.status = 200 /\ Len(DashboardSessions) >= 2 =>
        lastDashboard.performanceTrends.trend =
            LabelFor(Slice(DashboardSessions, 0, 5), Slice(DashboardSessions, 5, 10))

\* ------------------------------------------------------------ C25
\* C25: when a logout of a user ran while a refresh request of that user was
\* in flight (it revoked the token the request had presented and verified),
\* then once the refresh request has completed too the user has no refresh
\* token that is not blacklisted: the token the request issued is revoked.
C25_NoTokenSurvivesLogout ==
    \A s \in Slots :
        (slot[s].pc = "done" /\ slot[s].status = 200 /\ slot[s].token \in loggedOut) =>
            \A d \in refreshTokens :
                d.userId = slot[s].userId /\ d.jti = slot[s].newJti => d.isBlacklisted

\* ------------------------------------------------------------ C26
\* the disks of a tower grow smaller from the bottom to the top
Decreasing(tower) == \A i \in 1..(Len(tower) - 1) : tower[i] > tower[i + 1]

\* the towers hold the disks 1..disks, each once
HoldsAllDisks(g) ==
    /\ Len(g.towers[1]) + Len(g.towers[2]) + Len(g.towers[3]) = g.disks
    /\ \A k \in 1..g.disks :
          \E t \in 1..3 : \E i \in 1..Len(g.towers[t]) : g.towers[t][i] = k

\* towers' is towers with the top disk of one tower put on another
OneDiskMoved(before, after) ==
    \E from, to \in 0..2 :
        from # to /\ before[from + 1] # <<>> /\ after = MoveDisk(before, from, to)

\* C26: after any sequence of tower clicks every tower is strictly decreasing
\* from the bottom to the top and the towers together hold the disks
\* 1..config.disks, each once; the moves counter grows by one with every
\* move applied and with nothing else (a rejected move or a selection leaves
\* it alone); once the puzzle is completed no move is applied.
C26_HanoiRules ==
    [][game'.component = "tower-hanoi" =>
          /\ \A t \in 1..3 : Decreasing(game'.towers[t])
          /\ HoldsAllDisks(game')
          /\ game.component = "tower-hanoi" =>
                /\ game'.towers # game.towers =>
                      /\ OneDiskMoved(game.towers, game'.towers)
                      /\ game'.moves = game.moves + 1
                      /\ ~game.gameCompleted
                /\ game'.towers = game.towers => game'.moves = game.moves]_vars

\* the three disks of an easy game have reached the goal tower, by more moves
\* than the seven needed
C26_Witness ==
    /\ game.component = "tower-hanoi"
    /\ game.gameCompleted
    /\ game.towers[3] = <<3, 2, 1>>
    /\ game.moves > 7

\* ------------------------------------------------------------ C27
\* all disks of the Tower of Hanoi game are on the goal tower
HanoiSolved == game.component = "tower-hanoi" /\ Len(game.towers[3]) = game.disks

\* C27: in a tower-hanoi session, once all disks are on the goal tower the
\* GameEngine eventually reaches 'finished' and submits the session summary.
C27_SolvedGameEnds ==
    HanoiSolved ~> (engine.gameState = "finished" /\ submitted # <<>>)

\* ------------------------------------------------------------ C29
\* C29: in the simple-reaction and choice-reaction games at most one response
\* is reported to the engine per trial, and every response is reported while
\* the stimulus is shown; the engine has processed exactly the reported
\* responses, so a click at another moment changes nothing.
C29_OneResponsePerTrial ==
    game.component \in ReactionGames =>
        /\ \A i \in 1..Len(game.reports) : game.reports[i].displayed
        /\ \A i, j \in 1..Len(game.reports) :
              i # j => game.reports[i].trial # game.reports[j].trial
        /\ engine.processed = Len(game.reports)
        /\ ~game.mounted => engine.gameState = "finished"

\* a simple-reaction game waits for the stimulus of its third trial
C29_Witness ==
    /\ game.component = "simple-reaction"
    /\ game.mounted /\ game.gamePhase = "waiting" /\ ~SimpleDisplayed(game)
    /\ Len(game.reports) = 2

\* ------------------------------------------------------------ C3
\* C3 as stated: after N >= 1 accepted submissions by one user with scores
\* s1..sN, stats.totalSessions is N and stats.averageScore is (s1+...+sN)/N.
\* The code breaks it when a score arrives as a numeric string.
C3_AverageIsMean ==
    \A u \in Users :
        LET mine == SessionsOf(u)
        IN  /\ userDocs[u].stats.totalSessions = Len(mine)
            /\ mine # <<>> =>
                 userDocs[u].stats.averageScore = Rat(SumScores(mine), Len(mine))

\* ------------------------------------------------------------ C4
\* C4: in every state reached by session submissions, each user's level is
\* floor(xp / 1000) + 1.
C4_LevelFromXp ==
    \A u \in Users : userDocs[u].level = (userDocs[u].xp \div 1000) + 1

\* a submission has just taken its user across a level boundary
C4_Witness ==
    /\ lastPost.status = 201
    /\ lastPost.leveledUp
    /\ lastPost.currentLevel >= 2
    /\ \E u \in Users : lastPost.userId = u /\ userDocs[u].xp >= 1000

\* ------------------------------------------------------------ C5
\* C5: no user's badges array holds the same badge id twice, also after a
\* later submission satisfies a badge's criterion again.
C5_NoDuplicateBadges ==
    \A u \in Users :
        \A i, j \in 1..Len(userDocs[u].badges) :
            userDocs[u].badges[i] = userDocs[u].badges[j] => i = j

\* a user's latest session is their second one with score 100
C5_Witness ==
    /\ lastPost.status = 201
    /\ sessions[Len(sessions)].userId = lastPost.userId
    /\ sessions[Len(sessions)].score = 100
    /\ Len(SelectSeq(sessions,
                     LAMBDA x : x.userId = lastPost.userId /\ x.score = 100)) >= 2
    /\ HasBadge(userDocs[lastPost.userId], "perfect-score")

\* ------------------------------------------------------------ C6
OutOfRange(body) ==
    \/ ToNumber(body.score) < 0 \/ ToNumber(body.score) > 100
    \/ ToNumber(body.accuracy) < 0 \/ ToNumber(body.accuracy) > 100

\* C6: a submission whose score or accuracy is outside [0,100] is answered
\* with 400, and no Session is created and the User document is unchanged.
C6_OutOfRangeRejected ==
    [][\A u \in Players, b \in {x \in Bodies : OutOfRange(x)}, mlUp \in BOOLEAN :
          PostSession(u, b, mlUp) =>
              /\ lastPost'.status = 400
              /\ sessions' = sessions
              /\ userDocs' = userDocs]_vars

\* an out-of-range submission has been rejected after sessions were recorded
C6_Witness ==
    /\ lastPost.status = 400
    /\ lastPost.errors \cap {"score", "accuracy"} # {}
    /\ Len(sessions) > Len(Veteran)

\* ------------------------------------------------------------ C7
FirstSessionBody == NBackBody(Num(100), Num(100))

\* C7 as stated: the first session of a new user, score 100, leaves xp = 150
C7_Original ==
    [][\A u \in Users, mlUp \in BOOLEAN :
          (userDocs[u] = NewUserDoc /\ PostSession(u, FirstSessionBody, mlUp)) =>
              /\ userDocs'[u].stats.totalSessions = 1
              /\ userDocs'[u].xp = 150
              /\ userDocs'[u].level = 1
              /\ userDocs'[u].stats.averageScore = RInt(100)
              /\ HasBadge(userDocs'[u], "first-session")
              /\ HasBadge(userDocs'[u], "perfect-score")]_vars

\* C7: the first session of a new user, score 100, accuracy 100, duration 60,
\* n-back/working_memory/medium, leaves totalSessions 1, averageScore 100,
\* level 1, the badges first-session and perfect-score, and xp 350: the 150
\* the response reports as xpGained and 100 for each of the two badges.
C7_FirstSession ==
    [][\A u \in Users, mlUp \in BOOLEAN :
          (userDocs[u] = NewUserDoc /\ PostSession(u, FirstSessionBody, mlUp)) =>
              /\ userDocs'[u].stats.totalSessions = 1
              /\ lastPost'.xpGained = 150
              /\ userDocs'[u].xp = 350
              /\ userDocs'[u].level = 1
              /\ userDocs'[u].stats.averageScore = RInt(100)
              /\ userDocs'[u].badges = <<"first-session", "perfect-score">>]_vars

\* u1's first session, with score 100, has just been recorded
C7_Witness ==
    /\ lastPost.userId = "u1"
    /\ lastPost.status = 201
    /\ userDocs["u1"].stats.totalSessions = 1
    /\ sessions[Len(sessions)] =
         [NewSession("u1", FirstSessionBody) EXCEPT
            !.mlPredictions = MlPredictions(FirstSessionBody, FALSE)]


\* ------------------------------------------------------------ C9
\* the mean score of user u over the sessions in the range of the last
\* leaderboard request
MeanScore(u) ==
    LET mine == SelectSeq(Since(lastBoard.startDate), LAMBDA x : x.userId = u)
    IN  Rat(SumScores(mine), Len(mine))

\* rank i at position i, at most `limit` entries, isCurrentUser exactly on
\* the requester's entry
RankLimitCurrent ==
    LET board == lastBoard.leaderboard
    IN  /\ \A i \in 1..Len(board) :
              /\ board[i].rank = i
              /\ board[i].isCurrentUser <=> board[i].userId = lastBoard.requester
        /\ Len(board) <= parseInt(lastBoard.limit).v[1]

C10_ShortHistoryIsStable ==
    (lastDashboard.status = 200 /\ lastDashboard.totalSessions < 2) =>
        /\ lastDashboard.performanceTrends.trend = "stable"
        /\ lastDashboard.performanceTrends.change = JsNumber(RInt(0))
        /\ ~lastDashboard.performanceTrends.dividedByZero

\* the dashboard of a user with exactly one session in range has been served
C10_Witness ==
    /\ lastDashboard.status = 200
    /\ lastDashboard.totalSessions = 1
    /\ Len(SelectSeq(sessions, LAMBDA x : x.userId = lastDashboard.userId)) >= 1

====
